---- MODULE Spec2Model ----
(***************************************************************************)
(* Model of git-worktree-agent: the Watcher (branch registry, fetch        *)
(* scheduler, provisioning queue, hook sessions), the event channel and    *)
(* the App driver loop that drains it.                                      *)
(*                                                                         *)
(* The driver is one thread: App::run repeats                              *)
(*   process_watcher_events; do_poll when due; render; one key handler.    *)
(* Background threads (one per fetch, one per hook) only send messages.    *)
(***************************************************************************)
EXTENDS Integers, Sequences, FiniteSets, TLC

\* ------------------------------------------------------------------ bounds
\* Longest history of enqueues that is recorded (queue_branch / auto-create).
MaxEnq == 3
\* Lines of stderr the fetch classifier is given.
MaxStderrLines == 2
\* Number of fetches started, by the poll timer and in all.
MaxPolls == 1
MaxFetches == 2
\* Lines one hook writes to one of its output streams.
MaxHookLines == 2
\* Longest list of ignore patterns should_ignore_branch is given.
MaxPatterns == 2
\* Characters typed into the delete confirmation.
MaxInput == 3
\* Command logs and their outputs, counted together.
MaxLogSize == 5

\* ------------------------------------------------------------------ values
\* Branch names, listed in refname order (git for-each-ref sorts by refname).
BranchOrder == <<"a", "b", "c">>
Branches == {BranchOrder[i] : i \in 1..Len(BranchOrder)}
None == "none"

\* ViewMode::Main (app/mod.rs)
MainView == [mode |-> "Main"]
Remotes == {"origin", "upstream"}
Commits == {"c1", "c2"}
ExitCodes == {0, 1}

\* RemoteBranch as built by Repository::get_remote_branches.
RemoteRecord(n, r, c) ==
    [name |-> n, full_ref |-> <<r, n>>, remote |-> r, commit |-> c, is_local |-> FALSE]

\* RemoteBranch as built for a local branch (Repository::get_local_branches).
LocalRecord(n, c) ==
    [name |-> n, full_ref |-> <<n>>, remote |-> "", commit |-> c, is_local |-> TRUE]

\* The names of S in refname order.
Sorted(S) == SelectSeq(BranchOrder, LAMBDA n : n \in S)

\* A scan is a list of records with distinct names in refname order.
RemoteScan(S, r, c) == [i \in 1..Len(Sorted(S)) |-> RemoteRecord(Sorted(S)[i], r, c)]
LocalScan(S, c) == [i \in 1..Len(Sorted(S)) |-> LocalRecord(Sorted(S)[i], c)]

\* An empty HashMap.
EmptyMap == [x \in {} |-> None]

Names(scan) == {scan[i].name : i \in 1..Len(scan)}

SeqToSet(s) == {s[i] : i \in 1..Len(s)}

Contains(s, x) == \E i \in 1..Len(s) : s[i] = x

\* WatcherEvent (watcher.rs); arg is the payload other than the branch.
Ev(t, b, a) == [type |-> t, branch |-> b, arg |-> a]

VARIABLES
    \* Watcher
    known_branches,      \* HashMap<String, RemoteBranch>
    running_hooks,       \* HashMap<String, RunningCommand>: channel and thread
    fetch_in_progress,
    pending_branches,
    current_processing,
    \* App
    events,              \* mpsc channel event_tx -> event_rx
    pc,                  \* position of the driver in App::run
    post_create_command, \* config.post_create_command.is_some()
    auto_create_worktrees,
    untracked_branches,
    remote_name,
    last_fetch,          \* config.last_fetch: 0 is None, n the n-th completion time
    items,               \* branch_list_state.items: name -> BranchStatus
    \* environment
    worktrees,           \* branches whose worktree (and target path) exists
    fetch_threads,       \* background fetch threads that have not yet reported
    \* history
    enqLog,              \* branches in the order they were pushed on pending
    createLog,           \* branches in the order WorktreeCreating was sent
    busyStart,           \* a creation started while a hook session existed
    fetchLog,            \* fetch events in the order they were sent
    overlapped,          \* start_fetch was called while a fetch was in progress
    \* the calls made on the registry and the fetch classifier alone
    reconciled,          \* last registry call: its inputs and its result
    classified,          \* last fetch classified: its input and its event
    created,             \* last WorktreeManager::create: its input and result
    ignored,             \* last should_ignore_branch on a Config: input, result
    \* App, the parts of the screen
    view_mode,           \* ViewMode: Main, or DeleteConfirm {branch, input}
    main_worktree,       \* environment: the branch checked out in the main worktree
    last_key,            \* history: the key the driver handled last
    is_fetching,         \* status.is_fetching
    command_logs         \* watcher.command_logs: Vec<CommandLog>

watcherVars == <<known_branches, running_hooks, fetch_in_progress,
                 pending_branches, current_processing>>
appVars == <<events, pc, post_create_command, auto_create_worktrees,
             untracked_branches, remote_name, last_fetch, items>>
envVars == <<worktrees, fetch_threads>>
histVars == <<enqLog, createLog, busyStart, fetchLog, overlapped>>
CallVars == <<reconciled, classified, created, ignored>>
DialogVars == <<view_mode, main_worktree, last_key>>
SideVars == <<CallVars, DialogVars, is_fetching, command_logs>>
vars == <<watcherVars, appVars, envVars, histVars, SideVars>>

\* ---------------------------------------------------------------- watcher
\* The operators below take and return the record w of everything a Watcher
\* method can change: its own fields, the event channel it sends on, the
\* worktrees on disk, config.last_fetch and the history.
W == [known_branches |-> known_branches, running_hooks |-> running_hooks,
      fetch_in_progress |-> fetch_in_progress,
      pending_branches |-> pending_branches,
      current_processing |-> current_processing,
      events |-> events, worktrees |-> worktrees, last_fetch |-> last_fetch,
      fetch_threads |-> fetch_threads,
      enqLog |-> enqLog, createLog |-> createLog, busyStart |-> busyStart,
      fetchLog |-> fetchLog, overlapped |-> overlapped]

Commit(w) ==
    /\ known_branches' = w.known_branches
    /\ running_hooks' = w.running_hooks
    /\ fetch_in_progress' = w.fetch_in_progress
    /\ pending_branches' = w.pending_branches
    /\ current_processing' = w.current_processing
    /\ events' = w.events
    /\ worktrees' = w.worktrees
    /\ last_fetch' = w.last_fetch
    /\ enqLog' = w.enqLog
    /\ createLog' = w.createLog
    /\ busyStart' = w.busyStart
    /\ fetch_threads' = w.fetch_threads
    /\ fetchLog' = w.fetchLog
    /\ overlapped' = w.overlapped

Send(w, e) == [w EXCEPT !.events = Append(@, e)]

\* Config::should_ignore_branch: the untracked list; no branch name used here
\* matches an ignore pattern ("dependabot/*", "renovate/*" by default).
should_ignore_branch(b) == b \in untracked_branches

is_pending(w, b) == Contains(w.pending_branches, b)
is_current(w, b) == w.current_processing = b
has_running_hook(w, b) == b \in DOMAIN w.running_hooks

\* What git answers to the two "git worktree add" attempts.
GitOutcomes ==
    [first : {"ok", "already_exists", "fail"}, retry : {"ok", "fail"}]

\* WorktreeManager::create: Ok or Err, from whether the target path exists
\* and what git answers.
CreateSucceeds(exists, g) ==
    /\ ~exists
    /\ \/ g.first = "ok"
       \/ g.first = "already_exists" /\ g.retry = "ok"

\* Number of "git worktree add" commands WorktreeManager::create runs.
CreateAttempts(exists, g) ==
    IF exists THEN 0 ELSE IF g.first = "already_exists" THEN 2 ELSE 1

\* A fresh RunningCommand: an empty channel and a thread about to spawn.
NewSession == [chan |-> <<>>, phase |-> "run", nout |-> 0, nerr |-> 0]

\* Watcher::run_hook
run_hook(w, b) ==
    LET w1 == Send(w, Ev("HookStarted", b, None))
    IN  [w1 EXCEPT !.running_hooks =
            [x \in DOMAIN @ \cup {b} |-> IF x = b THEN NewSession ELSE @[x]]]

\* create_worktree that leaves current_processing set when no hook is started.
create_worktree_hold(w, b, g, hook) ==
    LET w1 == [Send(w, Ev("WorktreeCreating", b, None)) EXCEPT
                  !.createLog = Append(@, b),
                  !.busyStart = @ \/ (DOMAIN w.running_hooks # {})]
    IN  IF CreateSucceeds(b \in w.worktrees, g)
        THEN LET w2 == Send([w1 EXCEPT !.worktrees = @ \cup {b}],
                            Ev("WorktreeCreated", b, None))
             IN  IF hook THEN run_hook(w2, b) ELSE w2
        ELSE [Send(w1, Ev("WorktreeCreateFailed", b, None))
               EXCEPT !.current_processing = None]

\* Watcher::create_worktree. hook: config.post_create_command is set.
create_worktree(w, b, g, hook) ==
    LET w1 == [Send(w, Ev("WorktreeCreating", b, None)) EXCEPT
                  !.createLog = Append(@, b),
                  !.busyStart = @ \/ (DOMAIN w.running_hooks # {})]
    IN  IF CreateSucceeds(b \in w.worktrees, g)
        THEN LET w2 == Send([w1 EXCEPT !.worktrees = @ \cup {b}],
                            Ev("WorktreeCreated", b, None))
             IN  IF hook THEN run_hook(w2, b)
                 ELSE [w2 EXCEPT !.current_processing = None]
        ELSE [Send(w1, Ev("WorktreeCreateFailed", b, None))
               EXCEPT !.current_processing = None]

\* process_next_branch taking the branch queued last.
process_next_branch_lifo(w, g, hook) ==
    IF w.pending_branches = <<>>
    THEN [w EXCEPT !.current_processing = None]
    ELSE LET n == Len(w.pending_branches)
             b == w.pending_branches[n]
         IN  create_worktree([w EXCEPT !.pending_branches = SubSeq(@, 1, n - 1),
                                       !.current_processing = b],
                             b, g, hook)

\* Watcher::process_next_branch
process_next_branch(w, g, hook) ==
    IF w.pending_branches = <<>>
    THEN [w EXCEPT !.current_processing = None]
    ELSE LET b == Head(w.pending_branches)
         IN  create_worktree([w EXCEPT !.pending_branches = Tail(@),
                                       !.current_processing = b],
                             b, g, hook)

\* try_process_next that does not look at current_processing.
try_process_next_eager(w, g, hook) ==
    IF w.pending_branches # <<>>
    THEN process_next_branch(w, g, hook)
    ELSE w

\* try_process_next that never starts the next branch.
try_process_next_never(w, g, hook) == w

\* Watcher::try_process_next
try_process_next(w, g, hook) ==
    IF w.current_processing = None /\ w.pending_branches # <<>>
    THEN process_next_branch(w, g, hook)
    ELSE w

\* queue_branch that starts processing whether or not a branch is current.
queue_branch_unguarded(w, b, g, hook) ==
    IF is_pending(w, b) \/ is_current(w, b)
    THEN w
    ELSE process_next_branch([w EXCEPT !.pending_branches = Append(@, b),
                                       !.enqLog = Append(@, b)],
                             g, hook)

\* queue_branch that pushes the branch without looking at pending or current.
queue_branch_unchecked(w, b, g, hook) ==
    LET w1 == [w EXCEPT !.pending_branches = Append(@, b),
                        !.enqLog = Append(@, b)]
    IN  IF w1.current_processing = None
        THEN process_next_branch(w1, g, hook)
        ELSE w1

\* Watcher::queue_branch
queue_branch(w, b, g, hook) ==
    IF is_pending(w, b) \/ is_current(w, b)
    THEN w
    ELSE LET w1 == [w EXCEPT !.pending_branches = Append(@, b),
                             !.enqLog = Append(@, b)]
         IN  IF w1.current_processing = None
             THEN process_next_branch(w1, g, hook)
             ELSE w1

\* on_fetch_failed that also stamps config.last_fetch.
on_fetch_failed_stamp(w) ==
    [w EXCEPT !.fetch_in_progress = FALSE, !.last_fetch = @ + 1]

\* Watcher::on_fetch_failed
on_fetch_failed(w) == [w EXCEPT !.fetch_in_progress = FALSE]

\* HashMap::insert keyed by the record's name.
Insert(m, rec) ==
    [x \in DOMAIN m \cup {rec.name} |-> IF x = rec.name THEN rec ELSE m[x]]

\* retain that removes nothing.
RetainAll(m, keep) == m

\* HashMap::retain on the keys.
Retain(m, keep) == [x \in DOMAIN m \cap keep |-> m[x]]

\* "Find new remote branches" that reports every scanned branch that is not
\* ignored, known or not.
RECURSIVE FindNewRemoteEvery(_, _, _)
FindNewRemoteEvery(st, scan, i) ==
    IF i > Len(scan) THEN st
    ELSE LET rec == scan[i]
         IN  FindNewRemoteEvery(
                 [known |-> IF rec.name \notin DOMAIN st.known
                            THEN Insert(st.known, rec) ELSE st.known,
                  new |-> IF ~should_ignore_branch(rec.name)
                          THEN Append(st.new, rec.name)
                          ELSE st.new],
                 scan, i + 1)

\* "Find new remote branches" that reports ignored branches too.
RECURSIVE FindNewRemoteAll(_, _, _)
FindNewRemoteAll(st, scan, i) ==
    IF i > Len(scan) THEN st
    ELSE LET rec == scan[i]
         IN  IF rec.name \notin DOMAIN st.known
             THEN FindNewRemoteAll(
                      [known |-> Insert(st.known, rec),
                       new |-> Append(st.new, rec.name)],
                      scan, i + 1)
             ELSE FindNewRemoteAll(st, scan, i + 1)

\* on_fetch_complete, "Find new remote branches": the loop over the remote
\* scan from index i on; st is [known, new].
RECURSIVE FindNewRemote(_, _, _)
FindNewRemote(st, scan, i) ==
    IF i > Len(scan) THEN st
    ELSE LET rec == scan[i]
         IN  IF rec.name \notin DOMAIN st.known
             THEN FindNewRemote(
                      [known |-> Insert(st.known, rec),
                       new |-> IF ~should_ignore_branch(rec.name)
                               THEN Append(st.new, rec.name)
                               ELSE st.new],
                      scan, i + 1)
             ELSE FindNewRemote(st, scan, i + 1)

\* on_fetch_complete and init, "only if not already present": the loop over
\* the local scan from index i on.
RECURSIVE AddLocal(_, _, _)
AddLocal(known, scan, i) ==
    IF i > Len(scan) THEN known
    ELSE AddLocal(IF scan[i].name \notin DOMAIN known
                  THEN Insert(known, scan[i]) ELSE known,
                  scan, i + 1)

\* on_fetch_complete, the auto-create loop over new_branches from index i on.
RECURSIVE QueueNew(_, _, _)
QueueNew(w, new, i) ==
    IF i > Len(new) THEN w
    ELSE LET b == new[i]
         IN  IF should_ignore_branch(b) \/ b \in w.worktrees
                \/ Contains(w.pending_branches, b)
             THEN QueueNew(w, new, i + 1)
             ELSE QueueNew([w EXCEPT !.pending_branches = Append(@, b),
                                     !.enqLog = Append(@, b)],
                           new, i + 1)

\* The registry and the new_branches list on_fetch_complete computes from a
\* remote scan and a local scan.
Reconcile(known, remote, local) ==
    LET st == FindNewRemote([known |-> known, new |-> <<>>], remote, 1)
        k2 == AddLocal(st.known, local, 1)
    IN  [known |-> Retain(k2, Names(remote) \cup Names(local)),
         new |-> st.new]

\* Result<Vec<RemoteBranch>> of get_remote_branches.
ScanOk(list) == [ok |-> TRUE, list |-> list]
ScanErr == [ok |-> FALSE, list |-> <<>>]

\* on_fetch_complete that queues the new branches whether or not auto-create
\* is enabled.
on_fetch_complete_always(w, remote, local, g, auto, hook) ==
    LET w1 == [w EXCEPT !.fetch_in_progress = FALSE, !.last_fetch = @ + 1]
    IN  IF ~remote.ok THEN w1
        ELSE LET r == Reconcile(w.known_branches, remote.list, local)
                 w2 == [w1 EXCEPT !.known_branches = r.known]
             IN  IF r.new = <<>> THEN w2
                 ELSE LET w3 == Send(w2, Ev("NewBranchesFound", None, r.new))
                          w4 == QueueNew(w3, r.new, 1)
                      IN  IF w4.current_processing = None
                             /\ w4.pending_branches # <<>>
                          THEN process_next_branch(w4, g, hook)
                          ELSE w4

\* on_fetch_complete that takes a failed remote scan for an empty one.
on_fetch_complete_default(w, remote, local, g, auto, hook) ==
    LET w1 == [w EXCEPT !.fetch_in_progress = FALSE, !.last_fetch = @ + 1]
        r == Reconcile(w.known_branches, remote.list, local)
        w2 == [w1 EXCEPT !.known_branches = r.known]
    IN  IF r.new = <<>> THEN w2
        ELSE LET w3 == Send(w2, Ev("NewBranchesFound", None, r.new))
             IN  IF ~auto THEN w3
                 ELSE LET w4 == QueueNew(w3, r.new, 1)
                      IN  IF w4.current_processing = None
                             /\ w4.pending_branches # <<>>
                          THEN process_next_branch(w4, g, hook)
                          ELSE w4

\* Watcher::on_fetch_complete. remote is ScanErr when get_remote_branches
\* fails; local is the list get_local_branches().unwrap_or_default() gives.
on_fetch_complete(w, remote, local, g, auto, hook) ==
    LET w1 == [w EXCEPT !.fetch_in_progress = FALSE, !.last_fetch = @ + 1]
    IN  IF ~remote.ok THEN w1
        ELSE LET r == Reconcile(w.known_branches, remote.list, local)
                 w2 == [w1 EXCEPT !.known_branches = r.known]
             IN  IF r.new = <<>> THEN w2
                 ELSE LET w3 == Send(w2, Ev("NewBranchesFound", None, r.new))
                      IN  IF ~auto THEN w3
                          ELSE LET w4 == QueueNew(w3, r.new, 1)
                               IN  IF w4.current_processing = None
                                      /\ w4.pending_branches # <<>>
                                   THEN process_next_branch(w4, g, hook)
                                   ELSE w4

\* init that inserts a remote record only when the name is not yet known.
init_if_absent(known, remote, local) ==
    AddLocal(FindNewRemote([known |-> known, new |-> <<>>], remote, 1).known,
             local, 1)

\* Watcher::init; the registry after a successful call.
init(known, remote, local) ==
    LET RECURSIVE InsertAll(_, _)
        InsertAll(k, i) ==
            IF i > Len(remote) THEN k
            ELSE InsertAll(Insert(k, remote[i]), i + 1)
    IN  AddLocal(InsertAll(known, 1), local, 1)

\* Watcher::add_local_branch
add_local_branch(known, n) ==
    IF n \notin DOMAIN known THEN Insert(known, LocalRecord(n, "")) ELSE known

\* start_fetch without its guard on fetch_in_progress.
start_fetch_always(w) ==
    [Send(w, Ev("FetchStarted", None, None)) EXCEPT
        !.fetch_in_progress = TRUE,
        !.fetch_threads = @ + 1,
        !.fetchLog = Append(@, "FetchStarted")]

\* start_fetch that leaves fetch_in_progress as it is.
start_fetch_noflag(w) ==
    IF w.fetch_in_progress THEN w
    ELSE [Send(w, Ev("FetchStarted", None, None)) EXCEPT
             !.fetch_threads = @ + 1,
             !.fetchLog = Append(@, "FetchStarted")]

\* Watcher::start_fetch up to the spawn of the fetch thread.
start_fetch(w) ==
    IF w.fetch_in_progress THEN w
    ELSE [Send(w, Ev("FetchStarted", None, None)) EXCEPT
             !.fetch_in_progress = TRUE,
             !.fetch_threads = @ + 1,
             !.fetchLog = Append(@, "FetchStarted")]

\* CommandOutput messages on a hook session's channel.
Msg(k, v) == [kind |-> k, val |-> v]
IsTerminal(m) == m.kind \in {"Exit", "Error"}

\* check_running_hooks, the inner loop for one session: the events for the
\* messages of chan from index i on.
RECURSIVE HookEvents(_, _, _)
HookEvents(b, chan, i) ==
    IF i > Len(chan) THEN <<>>
    ELSE LET m == chan[i]
             e == IF m.kind = "Exit" THEN Ev("HookCompleted", b, m.val)
                  ELSE IF m.kind = "Error" THEN Ev("HookCompleted", b, -1)
                  ELSE Ev("HookOutput", b, m)
         IN  <<e>> \o HookEvents(b, chan, i + 1)

\* check_running_hooks: a session is completed when a terminal message was
\* received or its channel is disconnected (empty, all senders gone).
SessionCompleted(s) ==
    \/ \E i \in 1..Len(s.chan) : IsTerminal(s.chan[i])
    \/ s.phase = "done"

\* check_running_hooks, the loop over the sessions in the HashMap's
\* iteration order: every message received becomes an event.
RECURSIVE PollSessions(_, _, _)
PollSessions(w, order, i) ==
    IF i > Len(order) THEN w
    ELSE LET b == order[i]
             s == w.running_hooks[b]
         IN  PollSessions(
                 [w EXCEPT !.events = @ \o HookEvents(b, s.chan, 1),
                           !.running_hooks[b].chan = <<>>],
                 order, i + 1)

\* check_running_hooks with a timeout: a session still in flight is given up,
\* reported as HookCompleted with -1 and taken as completed.
check_running_hooks_timeout(w, order) ==
    LET inflight == {b \in DOMAIN w.running_hooks :
                         ~SessionCompleted(w.running_hooks[b])}
        w1 == PollSessions(w, order, 1)
        gaveup == SelectSeq(order, LAMBDA b : b \in inflight)
    IN  [w1 EXCEPT
            !.events = @ \o [i \in 1..Len(gaveup) |->
                                Ev("HookCompleted", gaveup[i], -1)],
            !.running_hooks = EmptyMap,
            !.current_processing =
                IF @ \in DOMAIN w.running_hooks THEN None ELSE @]

\* check_running_hooks that drops every session it polled, completed or not.
check_running_hooks_drop(w, order) ==
    LET w1 == PollSessions(w, order, 1)
    IN  [w1 EXCEPT
            !.running_hooks = EmptyMap,
            !.current_processing =
                IF @ \in DOMAIN w.running_hooks THEN None ELSE @]

\* check_running_hooks that leaves current_processing as it is.
check_running_hooks_keep(w, order) ==
    LET completed == {b \in DOMAIN w.running_hooks :
                          SessionCompleted(w.running_hooks[b])}
        w1 == PollSessions(w, order, 1)
    IN  [w1 EXCEPT
            !.running_hooks = [b \in DOMAIN @ \ completed |-> @[b]]]

\* Watcher::check_running_hooks; order is the HashMap's iteration order.
check_running_hooks(w, order) ==
    LET completed == {b \in DOMAIN w.running_hooks :
                          SessionCompleted(w.running_hooks[b])}
        w1 == PollSessions(w, order, 1)
    IN  [w1 EXCEPT
            !.running_hooks = [b \in DOMAIN @ \ completed |-> @[b]],
            !.current_processing = IF @ \in completed THEN None ELSE @]

\* -------------------------------------------------------------------- app
\* BranchStatus of one known branch, as App::update_branch_list computes it.
BranchStatus(w, b) ==
    IF is_current(w, b)
    THEN IF has_running_hook(w, b) THEN "RunningHook" ELSE "Creating"
    ELSE IF is_pending(w, b) THEN "Queued"
    ELSE IF b \in w.worktrees
    THEN IF has_running_hook(w, b) THEN "RunningHook" ELSE "LocalActive"
    ELSE "Remote"

\* App::update_branch_list: the items of the branch list.
update_branch_list(w, untracked) ==
    [b \in {n \in DOMAIN w.known_branches : n \notin untracked} |->
        BranchStatus(w, b)]

\* The arms of process_watcher_events that only set one item's status.
SetItem(its, b, st) ==
    IF b \in DOMAIN its THEN [its EXCEPT ![b] = st] ELSE its

\* What get_remote_branches returns to the driver while config.remote_name
\* is r: an error, one branch, or every branch.
RemoteResults(r) ==
    {ScanErr, ScanOk(RemoteScan({BranchOrder[1]}, r, "c1")),
     ScanOk(RemoteScan(Branches, r, "c1"))}

\* What get_local_branches returns to the driver: "git worktree add -b"
\* created a local branch for every worktree.
LocalResult(w) == LocalScan(w.worktrees, "c1")

\* What git answers to the driver: it creates the worktree or refuses.
DriverGitOutcomes ==
    {[first |-> "ok", retry |-> "ok"], [first |-> "fail", retry |-> "fail"]}

\* The history stays within its bound.
Within(w) == Len(w.enqLog) <= MaxEnq

DriverVars == <<pc>>
ConfigVars == <<post_create_command, auto_create_worktrees, untracked_branches,
                remote_name>>

\* --- process_watcher_events ---------------------------------------------
\* process_watcher_events, first statement: check_running_hooks.
CheckRunningHooks ==
    /\ pc = "drain"
    /\ \E order \in [1..Cardinality(DOMAIN running_hooks) -> DOMAIN running_hooks] :
          /\ SeqToSet(order) = DOMAIN running_hooks
          /\ Commit(check_running_hooks(W, order))
    /\ pc' = "events"
    /\ UNCHANGED <<ConfigVars, items, SideVars>>

\* The arm of the FetchCompleted event that leaves status.is_fetching alone.
is_fetching_after_failed_only(t) ==
    IF t = "FetchStarted" THEN TRUE
    ELSE IF t = "FetchFailed" THEN FALSE
    ELSE is_fetching

\* process_watcher_events: status.is_fetching after the arm of an event of
\* type t.
is_fetching_after(t) ==
    IF t = "FetchStarted" THEN TRUE
    ELSE IF t \in {"FetchCompleted", "FetchFailed"} THEN FALSE
    ELSE is_fetching

\* The driver takes the next event off the channel.
Taking(t) ==
    /\ pc = "events"
    /\ events # <<>>
    /\ Head(events).type = t
    /\ pc' = pc
    /\ is_fetching' = is_fetching_after(t)
    /\ UNCHANGED <<CallVars, DialogVars, command_logs>>

Taken == [W EXCEPT !.events = Tail(@)]

OnFetchStarted ==
    /\ Taking("FetchStarted")
    /\ Commit(Taken)
    /\ UNCHANGED <<ConfigVars, items>>

\* The FetchCompleted arm of process_watcher_events: what it writes to the
\* status after on_fetch_complete returned, whatever happened in the call.
StatusAfterFetchCompleted == [is_fetching |-> FALSE, last_error |-> None]

OnFetchCompleted ==
    /\ Taking("FetchCompleted")
    /\ \E remote \in RemoteResults(remote_name), g \in DriverGitOutcomes :
          LET w == on_fetch_complete(Taken, remote, LocalResult(Taken), g,
                                     auto_create_worktrees, post_create_command)
          IN  /\ Within(w)
              /\ Commit(w)
              /\ items' = update_branch_list(w, untracked_branches)
    /\ UNCHANGED ConfigVars

OnFetchFailed ==
    /\ Taking("FetchFailed")
    /\ Commit(on_fetch_failed(Taken))
    /\ UNCHANGED <<ConfigVars, items>>

OnNewBranchesFound ==
    /\ Taking("NewBranchesFound")
    /\ Commit(Taken)
    /\ items' = update_branch_list(Taken, untracked_branches)
    /\ UNCHANGED ConfigVars

OnWorktreeCreating ==
    /\ Taking("WorktreeCreating")
    /\ Commit(Taken)
    /\ items' = SetItem(items, Head(events).branch, "Creating")
    /\ UNCHANGED ConfigVars

\* The WorktreeCreated arm without its call of try_process_next.
OnWorktreeCreatedNoChain ==
    /\ Taking("WorktreeCreated")
    /\ Commit(Taken)
    /\ items' = update_branch_list(Taken, untracked_branches)
    /\ UNCHANGED ConfigVars

OnWorktreeCreated ==
    /\ Taking("WorktreeCreated")
    /\ \E g \in DriverGitOutcomes :
          LET w == IF ~post_create_command
                   THEN try_process_next(Taken, g, post_create_command)
                   ELSE Taken
          IN  /\ Commit(w)
              /\ items' = update_branch_list(Taken, untracked_branches)
    /\ UNCHANGED ConfigVars

\* A WorktreeCreateFailed handler that tries the failed branch once more.
OnWorktreeCreateFailedRetry ==
    /\ Taking("WorktreeCreateFailed")
    /\ \E g \in DriverGitOutcomes :
          LET b == Head(events).branch
              w == IF current_processing = None
                   THEN create_worktree(
                            [Taken EXCEPT !.current_processing = b],
                            b, g, post_create_command)
                   ELSE Taken
          IN  /\ Commit(w)
              /\ items' = update_branch_list(Taken, untracked_branches)
    /\ UNCHANGED ConfigVars

OnWorktreeCreateFailed ==
    /\ Taking("WorktreeCreateFailed")
    /\ \E g \in DriverGitOutcomes :
          /\ Commit(try_process_next(Taken, g, post_create_command))
          /\ items' = update_branch_list(Taken, untracked_branches)
    /\ UNCHANGED ConfigVars

OnHookStarted ==
    /\ Taking("HookStarted")
    /\ Commit(Taken)
    /\ items' = SetItem(items, Head(events).branch, "RunningHook")
    /\ UNCHANGED ConfigVars

OnHookOutput ==
    /\ Taking("HookOutput")
    /\ Commit(Taken)
    /\ UNCHANGED <<ConfigVars, items>>

\* The HookCompleted arm that starts the next branch only after exit code 0.
OnHookCompletedZeroOnly ==
    /\ Taking("HookCompleted")
    /\ \E g \in DriverGitOutcomes :
          /\ Commit(IF Head(events).arg = 0
                    THEN try_process_next(Taken, g, post_create_command)
                    ELSE Taken)
          /\ items' = update_branch_list(Taken, untracked_branches)
    /\ UNCHANGED ConfigVars

OnHookCompleted ==
    /\ Taking("HookCompleted")
    /\ \E g \in DriverGitOutcomes :
          /\ Commit(try_process_next(Taken, g, post_create_command))
          /\ items' = update_branch_list(Taken, untracked_branches)
    /\ UNCHANGED ConfigVars

\* A drain that may stop with events left on the channel.
DrainDoneEarly ==
    /\ pc = "events"
    /\ pc' = "poll"
    /\ UNCHANGED <<watcherVars, events, ConfigVars, last_fetch,
                   items, envVars, histVars, SideVars>>

\* try_recv finds the channel empty: process_watcher_events returns.
DrainDone ==
    /\ pc = "events"
    /\ events = <<>>
    /\ pc' = "poll"
    /\ UNCHANGED <<watcherVars, events, ConfigVars, last_fetch,
                   items, envVars, histVars, SideVars>>

\* --- do_poll --------------------------------------------------------------
\* App::do_poll
do_poll(w) == IF w.fetch_in_progress THEN w ELSE start_fetch(w)

Started(log) == Cardinality({i \in 1..Len(log) : log[i] = "FetchStarted"})

\* App::run: the poll interval has elapsed after the drain.
PollDue ==
    /\ pc = "poll"
    /\ LET w == do_poll(W)
       IN  /\ Started(w.fetchLog) <= MaxPolls
           /\ Commit(w)
    /\ pc' = "key"
    /\ UNCHANGED <<ConfigVars, items, SideVars>>

PollNotDue ==
    /\ pc = "poll"
    /\ pc' = "key"
    /\ UNCHANGED <<watcherVars, events, ConfigVars, last_fetch,
                   items, envVars, histVars, SideVars>>

\* --- key handlers ---------------------------------------------------------
\* No key press within the poll timeout, or a key that changes nothing here.
KeyNone ==
    /\ pc = "key"
    /\ pc' = "drain"
    /\ UNCHANGED <<watcherVars, events, ConfigVars, last_fetch,
                   items, envVars, histVars, SideVars>>

\* 'r': do_poll.
KeyPoll ==
    /\ pc = "key"
    /\ LET w == do_poll(W)
       IN  /\ Started(w.fetchLog) <= MaxFetches
           /\ Commit(w)
    /\ pc' = "drain"
    /\ UNCHANGED <<ConfigVars, items, SideVars>>

\* Watcher::start_fetch called while a fetch may be in progress.
StartFetchCall ==
    /\ pc = "key"
    /\ LET w == start_fetch(W)
       IN  /\ Started(w.fetchLog) <= MaxFetches
           /\ Commit([w EXCEPT !.overlapped = @ \/ fetch_in_progress])
    /\ pc' = "drain"
    /\ UNCHANGED <<ConfigVars, items, SideVars>>

\* Enter: App::create_selected_worktree with branch b selected.
create_selected_worktree(w, b, g, hook) ==
    IF items[b] \in {"LocalActive", "Creating", "RunningHook", "Queued"}
    THEN w
    ELSE queue_branch(w, b, g, hook)

KeyCreateSelected ==
    /\ pc = "key"
    /\ \E b \in DOMAIN items, g \in DriverGitOutcomes :
          LET w == create_selected_worktree(W, b, g, post_create_command)
          IN  /\ Within(w)
              /\ Commit(w)
              /\ items' = IF items[b] \in {"LocalActive", "Creating",
                                              "RunningHook", "Queued"}
                          THEN items
                          ELSE update_branch_list(w, untracked_branches)
    /\ pc' = "drain"
    /\ UNCHANGED <<ConfigVars, SideVars>>

\* 'u': App::untrack_selected with branch b selected.
KeyUntrack ==
    /\ pc = "key"
    /\ \E b \in DOMAIN items :
          /\ untracked_branches' = untracked_branches \cup {b}
          /\ items' = update_branch_list(W, untracked_branches \cup {b})
    /\ pc' = "drain"
    /\ UNCHANGED <<watcherVars, events, post_create_command,
                   auto_create_worktrees, remote_name, last_fetch,
                   envVars, histVars, SideVars>>

\* 'a': App::toggle_auto_create.
KeyToggleAuto ==
    /\ pc = "key"
    /\ auto_create_worktrees' = ~auto_create_worktrees
    /\ pc' = "drain"
    /\ UNCHANGED <<watcherVars, events, post_create_command,
                   untracked_branches, remote_name, last_fetch,
                   items, envVars, histVars, SideVars>>

\* Settings, Enter in the edit of the post-create command:
\* App::apply_settings_edit; an empty value clears the command.
KeySetHook ==
    /\ pc = "key"
    /\ \E v \in BOOLEAN : post_create_command' = v
    /\ pc' = "drain"
    /\ UNCHANGED <<watcherVars, events, auto_create_worktrees,
                   untracked_branches, remote_name, last_fetch,
                   items, envVars, histVars, SideVars>>

\* Delete dialog confirmed for branch b: App::do_delete_worktree. The dialog
\* opens only for a listed branch shown with a worktree; git may refuse.
KeyDeleteWorktree ==
    /\ pc = "key"
    /\ \E b \in DOMAIN items, ok \in BOOLEAN :
          /\ items[b] = "LocalActive"
          /\ LET w == IF ok /\ b \in worktrees
                      THEN [W EXCEPT !.worktrees = @ \ {b}] ELSE W
             IN  /\ Commit(w)
                 /\ items' = update_branch_list(w, untracked_branches)
    /\ pc' = "drain"
    /\ UNCHANGED <<ConfigVars, SideVars>>

\* Watcher::start_hook
start_hook(w, b) == run_hook(w, b)

\* App::do_create_new_worktree for a new branch nb. ok: create_new_branch
\* succeeded; it cannot when the branch's worktree already exists.
do_create_new_worktree(w, nb, ok, hook) ==
    IF ok /\ nb \notin w.worktrees
    THEN LET w1 == [w EXCEPT !.worktrees = @ \cup {nb},
                             !.known_branches = add_local_branch(@, nb)]
         IN  IF hook THEN start_hook(w1, nb) ELSE w1
    ELSE w

\* Create-worktree dialog, Enter on the branch name.
KeyCreateNew ==
    /\ pc = "key"
    /\ \E nb \in Branches, ok \in BOOLEAN :
          LET w == do_create_new_worktree(W, nb, ok, post_create_command)
          IN  /\ Commit(w)
              /\ items' = IF ok /\ nb \notin worktrees
                          THEN update_branch_list(
                                   [w EXCEPT !.running_hooks = running_hooks],
                                   untracked_branches)
                          ELSE items
    /\ pc' = "drain"
    /\ UNCHANGED <<ConfigVars, SideVars>>

\* ------------------------------------------------------- fetch classifier
\* A line of git's output is a sequence of tokens: "sp" is white space, the
\* other tokens are words; the upper-case tokens are the same words in
\* capitals.
Lower(tok) ==
    CASE tok = "WARNING" -> "warning"
      [] tok = "From" -> "from"
      [] tok = "HINT:" -> "hint:"
      [] tok = "FATAL" -> "fatal"
      [] OTHER -> tok

\* str::trim
RECURSIVE TrimStart(_)
TrimStart(line) ==
    IF line # <<>> /\ Head(line) = "sp" THEN TrimStart(Tail(line)) ELSE line

RECURSIVE TrimEnd(_)
TrimEnd(line) ==
    IF line # <<>> /\ line[Len(line)] = "sp"
    THEN TrimEnd(SubSeq(line, 1, Len(line) - 1)) ELSE line

Trim(line) == TrimEnd(TrimStart(line))

\* str::to_lowercase
ToLowercase(line) == [i \in 1..Len(line) |-> Lower(line[i])]

\* str::starts_with
StartsWith(line, prefix) ==
    /\ Len(line) >= Len(prefix)
    /\ SubSeq(line, 1, Len(prefix)) = prefix

\* is_real_error on the line as git wrote it.
IsRealErrorLineRaw(raw) ==
    /\ raw # <<>>
    /\ ~StartsWith(raw, <<"warning">>)
    /\ ~Contains(raw, "post-quantum")
    /\ ~StartsWith(raw, <<"hint:">>)
    /\ ~StartsWith(raw, <<"from", "sp">>)

\* start_fetch, the is_real_error closure for one stderr line.
IsRealErrorLine(raw) ==
    LET line == ToLowercase(Trim(raw))
    IN  /\ line # <<>>
        /\ ~StartsWith(line, <<"warning">>)
        /\ ~Contains(line, "post-quantum")
        /\ ~StartsWith(line, <<"hint:">>)
        /\ ~StartsWith(line, <<"from", "sp">>)

\* start_fetch, the messages collected from stderr then stdout.
Messages(stderr, stdout) ==
    SelectSeq([i \in 1..Len(stderr \o stdout) |-> Trim((stderr \o stdout)[i])],
              LAMBDA l : l # <<>>)

\* Option<String>: <<>> is None, <<m>> is Some(m).
OutputMsg(messages) == IF messages = <<>> THEN <<>> ELSE <<messages>>

\* The event the fetch thread sends. inp.spawned: Command::output returned Ok;
\* inp.success: output.status.success().
fetch_result(inp) ==
    IF ~inp.spawned THEN Ev("FetchFailed", None, "spawn error")
    ELSE IF inp.success
    THEN Ev("FetchCompleted", None, OutputMsg(Messages(inp.stderr, inp.stdout)))
    ELSE IF \E i \in 1..Len(inp.stderr) : IsRealErrorLine(inp.stderr[i])
    THEN Ev("FetchFailed", None, inp.stderr)
    ELSE Ev("FetchCompleted", None, OutputMsg(Messages(inp.stderr, inp.stdout)))

FetchInput(sp, ok, err, out) ==
    [spawned |-> sp, success |-> ok, stderr |-> err, stdout |-> out]

\* The fetch runs the driver's model sees: no git, a clean fetch, a fetch that
\* only warns, a fetch that fails.
DriverFetchInputs ==
    {FetchInput(FALSE, FALSE, <<>>, <<>>),
     FetchInput(TRUE, TRUE, <<>>, <<>>),
     FetchInput(TRUE, FALSE, << <<"warning", "sp", "x">> >>, <<>>),
     FetchInput(TRUE, FALSE, << <<"fatal", "sp", "x">> >>, <<>>)}

\* ---------------------------------------------------------------- threads
\* A fetch thread that clears fetch_in_progress itself when it ends.
FetchThreadDoneClears ==
    /\ fetch_threads > 0
    /\ \E inp \in DriverFetchInputs :
          LET e == fetch_result(inp)
          IN  Commit([Send(W, e) EXCEPT !.fetch_threads = @ - 1,
                                        !.fetch_in_progress = FALSE,
                                        !.fetchLog = Append(@, e.type)])
    /\ UNCHANGED <<DriverVars, ConfigVars, items,
                   SideVars>>

\* The fetch thread ends: it sends its one event.
FetchThreadDone ==
    /\ fetch_threads > 0
    /\ \E inp \in DriverFetchInputs :
          LET e == fetch_result(inp)
          IN  Commit([Send(W, e) EXCEPT !.fetch_threads = @ - 1,
                                        !.fetchLog = Append(@, e.type)])
    /\ UNCHANGED <<DriverVars, ConfigVars, items,
                   SideVars>>

\* A sender that puts its message at the front of the channel.
HookSendFront(b, m, ph) ==
    /\ running_hooks' = [running_hooks EXCEPT
                            ![b].chan = <<m>> \o @, ![b].phase = ph,
                            ![b].nout = IF m.kind = "Stdout" THEN @ + 1 ELSE @,
                            ![b].nerr = IF m.kind = "Stderr" THEN @ + 1 ELSE @]
    /\ UNCHANGED <<known_branches, fetch_in_progress, pending_branches,
                   current_processing, appVars, envVars, histVars, SideVars>>

\* mpsc::Sender::send by a thread of session b: the message joins the end of
\* the channel; nout and nerr count the lines the command produced.
HookSend(b, m, ph) ==
    /\ running_hooks' = [running_hooks EXCEPT
                            ![b].chan = Append(@, m), ![b].phase = ph,
                            ![b].nout = IF m.kind = "Stdout" THEN @ + 1 ELSE @,
                            ![b].nerr = IF m.kind = "Stderr" THEN @ + 1 ELSE @]
    /\ UNCHANGED <<known_branches, fetch_in_progress, pending_branches,
                   current_processing, appVars, envVars, histVars, SideVars>>

\* run_command_with_output: a reader thread forwards one line.
HookLine ==
    \E b \in DOMAIN running_hooks :
        /\ running_hooks[b].phase = "run"
        /\ \/ /\ running_hooks[b].nout < MaxHookLines
              /\ HookSend(b, Msg("Stdout", running_hooks[b].nout + 1), "run")
           \/ /\ running_hooks[b].nerr < MaxHookLines
              /\ HookSend(b, Msg("Stderr", running_hooks[b].nerr + 1), "run")

\* An exit code sent without joining the readers: the thread goes on.
HookExitEarly ==
    \E b \in DOMAIN running_hooks, c \in ExitCodes :
        /\ running_hooks[b].phase = "run"
        /\ \A i \in 1..Len(running_hooks[b].chan) :
               ~IsTerminal(running_hooks[b].chan[i])
        /\ HookSend(b, Msg("Exit", c), "run")

\* run_command_with_output: the child exited and both readers were joined.
HookExit ==
    \E b \in DOMAIN running_hooks, c \in ExitCodes :
        /\ running_hooks[b].phase = "run"
        /\ HookSend(b, Msg("Exit", c), "done")

\* A spawn failure after which the thread also sends an exit code.
HookSpawnErrorThenExit ==
    \E b \in DOMAIN running_hooks :
        /\ running_hooks[b].phase = "run"
        /\ running_hooks[b].nout = 0 /\ running_hooks[b].nerr = 0
        /\ running_hooks' = [running_hooks EXCEPT
                                ![b].chan = @ \o <<Msg("Error", "spawn"),
                                                   Msg("Exit", 1)>>,
                                ![b].phase = "done"]
        /\ UNCHANGED <<known_branches, fetch_in_progress, pending_branches,
                       current_processing, appVars, envVars, histVars, SideVars>>

\* run_async: the spawn failed; the thread sends Error and nothing else.
HookSpawnError ==
    \E b \in DOMAIN running_hooks :
        /\ running_hooks[b].phase = "run"
        /\ running_hooks[b].nout = 0 /\ running_hooks[b].nerr = 0
        /\ HookSend(b, Msg("Error", "spawn"), "done")

\* ------------------------------------------------------------------- spec
\* App::new: Watcher::new, then Watcher::init on what the repository holds.
InitScans ==
    {<< <<>>, <<>> >>, << RemoteScan(Branches, "origin", "c1"), <<>> >>}

\* The state after construction with registry known and ignore list untracked.
InitWith(known, untracked) ==
    /\ known_branches = known
    /\ running_hooks = EmptyMap
    /\ fetch_in_progress = FALSE
    /\ pending_branches = <<>>
    /\ current_processing = None
    /\ events = <<>>
    /\ pc = "drain"
    /\ post_create_command = FALSE
    /\ auto_create_worktrees = FALSE
    /\ untracked_branches = untracked
    /\ remote_name = "origin"
    /\ last_fetch = 0
    /\ worktrees = {}
    /\ fetch_threads = 0
    /\ enqLog = <<>>
    /\ createLog = <<>>
    /\ busyStart = FALSE
    /\ fetchLog = <<>>
    /\ overlapped = FALSE
    /\ reconciled = [op |-> "none"]
    /\ classified = [op |-> "none"]
    /\ created = [op |-> "none"]
    /\ ignored = [op |-> "none"]
    /\ view_mode = MainView
    /\ main_worktree = None
    /\ last_key = None
    /\ is_fetching = FALSE
    /\ command_logs = <<>>
    /\ items = update_branch_list(W, untracked)

Init == \E sc \in InitScans : InitWith(init(EmptyMap, sc[1], sc[2]), {})

\* The provisioning queue under the driver: manual enqueues, fetches that
\* auto-create, hooks that exit.
NextQueue ==
    \/ CheckRunningHooks
    \/ OnFetchStarted
    \/ OnFetchCompleted
    \/ OnFetchFailed
    \/ OnNewBranchesFound
    \/ OnWorktreeCreating
    \/ OnWorktreeCreated
    \/ OnWorktreeCreateFailed
    \/ OnHookStarted
    \/ OnHookCompleted
    \/ DrainDone
    \/ FetchThreadDone
    \/ HookExit
    \/ HookSpawnError
    \/ PollDue
    \/ PollNotDue
    \/ KeyNone
    \/ KeyCreateSelected
    \/ KeyToggleAuto
    \/ KeySetHook

SpecQueue == Init /\ [][NextQueue]_vars

\* The fetch scheduler under the driver: the poll timer, 'r', direct calls of
\* start_fetch, the fetch thread and the handlers of its events. Auto-create
\* stays off, so no worktree is created.
NextFetch ==
    \/ CheckRunningHooks
    \/ OnFetchStarted
    \/ OnFetchCompleted
    \/ OnFetchFailed
    \/ OnNewBranchesFound
    \/ DrainDone
    \/ FetchThreadDone
    \/ PollDue
    \/ PollNotDue
    \/ KeyNone
    \/ KeyPoll
    \/ StartFetchCall

SpecFetch == Init /\ [][NextFetch]_vars

\* The driver's own steps in NextFetch.
DriverStepFetch ==
    \/ CheckRunningHooks
    \/ OnFetchStarted
    \/ OnFetchCompleted
    \/ OnFetchFailed
    \/ OnNewBranchesFound
    \/ DrainDone
    \/ PollDue
    \/ PollNotDue
    \/ KeyNone
    \/ KeyPoll
    \/ StartFetchCall

\* SpecFetch where the driver keeps running its loop and every git fetch
\* terminates.
SpecFetchFair ==
    /\ SpecFetch
    /\ WF_vars(DriverStepFetch)
    /\ WF_vars(FetchThreadDone)

\* The provisioning queue with manual enqueues only: Enter on a branch, the
\* handlers of the creation and hook events, hooks that exit.
NextEnqueue ==
    \/ CheckRunningHooks
    \/ OnWorktreeCreating
    \/ OnWorktreeCreated
    \/ OnWorktreeCreateFailed
    \/ OnHookStarted
    \/ OnHookCompleted
    \/ DrainDone
    \/ HookExit
    \/ HookSpawnError
    \/ PollNotDue
    \/ KeyNone
    \/ KeyCreateSelected
    \/ KeySetHook

SpecEnqueue == Init /\ [][NextEnqueue]_vars

\* The driver's own steps in NextEnqueue.
DriverStep ==
    \/ CheckRunningHooks
    \/ OnWorktreeCreating
    \/ OnWorktreeCreated
    \/ OnWorktreeCreateFailed
    \/ OnHookStarted
    \/ OnHookCompleted
    \/ DrainDone
    \/ PollNotDue
    \/ KeyNone
    \/ KeyCreateSelected
    \/ KeySetHook

\* SpecEnqueue where the driver keeps running its loop and every hook that
\* was started exits (or fails to spawn).
SpecEnqueueFair ==
    /\ SpecEnqueue
    /\ WF_vars(DriverStep)
    /\ WF_vars(HookExit \/ HookSpawnError)

\* Hook streaming under the driver: a repository with two remote branches,
\* manual enqueues, hooks that print lines on both streams and exit.
InitHooks ==
    InitWith(init(EmptyMap,
                  RemoteScan({BranchOrder[1], BranchOrder[2]}, "origin", "c1"),
                  <<>>),
             {})

NextHooks ==
    \/ NextEnqueue
    \/ OnHookOutput
    \/ HookLine

SpecHooks == InitHooks /\ [][NextHooks]_vars

\* Watcher::queue_branch called for any branch, whatever the branch list shows
\* for it; the list is refreshed as create_selected_worktree does.
QueueBranchCall ==
    /\ pc = "key"
    /\ \E b \in Branches, g \in DriverGitOutcomes :
          LET w == queue_branch(W, b, g, post_create_command)
          IN  /\ Within(w)
              /\ Commit(w)
              /\ items' = update_branch_list(w, untracked_branches)
    /\ pc' = "drain"
    /\ UNCHANGED <<ConfigVars, SideVars>>

\* The provisioning queue under direct calls of queue_branch, fetches that
\* auto-create, and hooks that exit.
NextPending ==
    \/ CheckRunningHooks
    \/ OnFetchStarted
    \/ OnFetchCompleted
    \/ OnFetchFailed
    \/ OnNewBranchesFound
    \/ OnWorktreeCreating
    \/ OnWorktreeCreated
    \/ OnWorktreeCreateFailed
    \/ OnHookStarted
    \/ OnHookCompleted
    \/ DrainDone
    \/ FetchThreadDone
    \/ HookExit
    \/ PollDue
    \/ PollNotDue
    \/ KeyNone
    \/ QueueBranchCall
    \/ KeyToggleAuto
    \/ KeySetHook

\* App::new on a repository that holds no branch yet.
InitPending == InitWith(init(EmptyMap, <<>>, <<>>), {})

SpecPending == InitPending /\ [][NextPending]_vars

\* The provisioning queue and the create-worktree dialog: manual enqueues,
\* new branches created through the dialog, hooks that exit.
NextDialog ==
    \/ NextEnqueue
    \/ KeyCreateNew

SpecDialog == InitHooks /\ [][NextDialog]_vars

\* Hook sessions from start to end: the post-create command is configured
\* at start, the one known branch is enqueued by hand, its hook writes lines
\* and exits or fails to spawn, and the driver and the hook thread keep
\* running.
InitSession ==
    /\ known_branches =
           init(EmptyMap, RemoteScan({BranchOrder[1]}, "origin", "c1"), <<>>)
    /\ running_hooks = EmptyMap
    /\ fetch_in_progress = FALSE
    /\ pending_branches = <<>>
    /\ current_processing = None
    /\ events = <<>>
    /\ pc = "drain"
    /\ post_create_command = TRUE
    /\ auto_create_worktrees = FALSE
    /\ untracked_branches = {}
    /\ remote_name = "origin"
    /\ last_fetch = 0
    /\ worktrees = {}
    /\ fetch_threads = 0
    /\ enqLog = <<>>
    /\ createLog = <<>>
    /\ busyStart = FALSE
    /\ fetchLog = <<>>
    /\ overlapped = FALSE
    /\ items = update_branch_list(W, {})
    /\ reconciled = [op |-> "none"]
    /\ classified = [op |-> "none"]
    /\ created = [op |-> "none"]
    /\ ignored = [op |-> "none"]
    /\ view_mode = MainView
    /\ main_worktree = None
    /\ last_key = None
    /\ is_fetching = FALSE
    /\ command_logs = <<>>

DriverStepSession ==
    \/ CheckRunningHooks
    \/ OnWorktreeCreating
    \/ OnWorktreeCreated
    \/ OnWorktreeCreateFailed
    \/ OnHookStarted
    \/ OnHookOutput
    \/ OnHookCompleted
    \/ DrainDone
    \/ PollNotDue
    \/ KeyNone
    \/ KeyCreateSelected

NextSession ==
    \/ DriverStepSession
    \/ HookLine
    \/ HookExit
    \/ HookSpawnError

SpecSession ==
    /\ InitSession
    /\ [][NextSession]_vars
    /\ WF_vars(DriverStepSession)
    /\ WF_vars(HookExit \/ HookSpawnError)

\* Auto-create under repeated fetches: the configuration is read at start
\* (post-create command, auto-create, one branch on the ignore list or none),
\* 'r' starts fetches, 'a' toggles auto-create; no manual enqueue.
InitAuto ==
    /\ known_branches = EmptyMap
    /\ running_hooks = EmptyMap
    /\ fetch_in_progress = FALSE
    /\ pending_branches = <<>>
    /\ current_processing = None
    /\ events = <<>>
    /\ pc = "drain"
    /\ post_create_command \in BOOLEAN
    /\ auto_create_worktrees \in BOOLEAN
    /\ untracked_branches \in {{}, {BranchOrder[2]}}
    /\ remote_name = "origin"
    /\ last_fetch = 0
    /\ worktrees = {}
    /\ fetch_threads = 0
    /\ enqLog = <<>>
    /\ createLog = <<>>
    /\ busyStart = FALSE
    /\ fetchLog = <<>>
    /\ overlapped = FALSE
    /\ items = EmptyMap
    /\ reconciled = [op |-> "none"]
    /\ classified = [op |-> "none"]
    /\ created = [op |-> "none"]
    /\ ignored = [op |-> "none"]
    /\ view_mode = MainView
    /\ main_worktree = None
    /\ last_key = None
    /\ is_fetching = FALSE
    /\ command_logs = <<>>

NextAuto ==
    \/ CheckRunningHooks
    \/ OnFetchStarted
    \/ OnFetchCompleted
    \/ OnFetchFailed
    \/ OnNewBranchesFound
    \/ OnWorktreeCreating
    \/ OnWorktreeCreated
    \/ OnWorktreeCreateFailed
    \/ OnHookStarted
    \/ OnHookCompleted
    \/ DrainDone
    \/ FetchThreadDone
    \/ HookExit
    \/ PollNotDue
    \/ KeyNone
    \/ KeyPoll
    \/ KeyToggleAuto

SpecAuto == InitAuto /\ [][NextAuto]_vars

\* The whole driver: every handler, key and thread.
Next ==
    \/ NextQueue
    \/ OnHookOutput
    \/ HookLine
    \/ KeyPoll
    \/ StartFetchCall
    \/ KeyUntrack
    \/ KeyDeleteWorktree
    \/ KeyCreateNew

Spec == Init /\ [][Next]_vars

\* --- the registry alone -----------------------------------------------------
\* The names the registry calls are made with.
RegistryNames == {BranchOrder[1], BranchOrder[2]}

RegistryRemoteScans(r) ==
    {RemoteScan(S, r, c) : S \in SUBSET RegistryNames, c \in Commits}

RegistryLocalScans == {LocalScan(S, "c1") : S \in SUBSET RegistryNames}

\* A call on the registry: its inputs and what it left or returned.
Call(op, before, remote, local, new, after) ==
    [op |-> op, before |-> before, remote |-> remote, local |-> local,
     new |-> new, after |-> after]

RegistryUnchanged ==
    UNCHANGED <<running_hooks, fetch_in_progress, pending_branches,
                current_processing, events, pc, post_create_command,
                auto_create_worktrees, untracked_branches, last_fetch, items,
                envVars, histVars, classified, created, ignored,
                DialogVars, is_fetching, command_logs>>

\* Watcher::init succeeds: at start, at the end of setup, or after the
\* settings changed config.remote_name to r.
RegistryInit ==
    /\ \E r \in Remotes : \E remote \in RegistryRemoteScans(r),
                             local \in RegistryLocalScans :
          /\ remote_name' = r
          /\ known_branches' = init(known_branches, remote, local)
          /\ reconciled' = Call("init", known_branches, remote, local, <<>>,
                                init(known_branches, remote, local))
    /\ RegistryUnchanged

\* on_fetch_complete reconciles the registry with a remote and a local scan.
RegistryReconcile ==
    /\ \E remote \in RegistryRemoteScans(remote_name),
          local \in RegistryLocalScans :
          LET r == Reconcile(known_branches, remote, local)
          IN  /\ known_branches' = r.known
              /\ reconciled' = Call("reconcile", known_branches, remote, local,
                                    r.new, r.known)
    /\ remote_name' = remote_name
    /\ RegistryUnchanged

\* Watcher::add_local_branch for a branch the user created.
RegistryAddLocal ==
    /\ \E n \in RegistryNames :
          /\ known_branches' = add_local_branch(known_branches, n)
          /\ reconciled' = Call("add_local_branch", known_branches, <<>>, <<>>,
                                <<>>, add_local_branch(known_branches, n))
    /\ remote_name' = remote_name
    /\ RegistryUnchanged

\* Watcher::new with a configuration that ignores no branch or one branch.
InitRegistry == \E u \in {{}, {BranchOrder[2]}} : InitWith(EmptyMap, u)

NextRegistry == RegistryInit \/ RegistryReconcile \/ RegistryAddLocal

SpecRegistry == InitRegistry /\ [][NextRegistry]_vars

\* --- the fetch classifier alone ----------------------------------------------
\* Lines git may write: empty, blank, benign in either case or indented, and
\* real errors.
StderrLines ==
    {<<>>, <<"sp">>,
     <<"warning", "sp", "x">>, <<"WARNING", "sp", "x">>,
     <<"sp", "warning", "sp", "x">>,
     <<"hint:", "sp", "x">>,
     <<"from", "sp", "x">>, <<"From", "sp", "x">>, <<"from", "sp">>,
     <<"x", "sp", "post-quantum">>,
     <<"fatal", "sp", "x">>, <<"x">>}

\* The sequences over S of length at most n.
RECURSIVE SeqsUpTo(_, _)
SeqsUpTo(S, n) ==
    IF n = 0 THEN {<<>>}
    ELSE SeqsUpTo(S, n - 1)
         \cup {Append(q, x) : q \in {t \in SeqsUpTo(S, n - 1) : Len(t) = n - 1},
                               x \in S}

ClassifyInputs ==
    {FetchInput(sp, ok, err, out) :
        sp \in BOOLEAN, ok \in BOOLEAN,
        err \in SeqsUpTo(StderrLines, MaxStderrLines),
        out \in {<<>>, << <<"x">> >>, << <<"sp">> >>}}

\* A fetch thread classifies the output of one "git fetch".
Classify ==
    /\ classified.op = "none"
    /\ \E inp \in ClassifyInputs :
          classified' = [op |-> "fetch", input |-> inp,
                         event |-> fetch_result(inp)]
    /\ UNCHANGED <<watcherVars, appVars, envVars, histVars, reconciled,
                   created, ignored, DialogVars, is_fetching, command_logs>>

SpecClassify == Init /\ [][Classify]_vars

\* --- WorktreeManager::create alone -------------------------------------------
\* What git writes to stderr, as words: nothing, its progress line, and three
\* of its fatal messages.
BranchAlreadyExists == <<"fatal:", "a", "branch", "named", "x", "already", "exists">>
GitStderr ==
    {<<>>,
     <<"Preparing", "worktree">>,
     BranchAlreadyExists,
     <<"fatal:", "x", "is", "already", "checked", "out">>,
     <<"fatal:", "invalid", "reference">>}

\* str::contains, on words.
ContainsWords(text, words) ==
    \E i \in 1..(Len(text) - Len(words) + 1) :
        SubSeq(text, i, i + Len(words) - 1) = words

\* One run of "git worktree add": whether Command::output ran the command,
\* and then its exit status and its stderr.
GitRuns ==
    {r \in [spawned : BOOLEAN, success : BOOLEAN, stderr : GitStderr] :
        ~r.spawned => (~r.success /\ r.stderr = <<>>)}

\* The inputs of one call of create. parent, exists: the parent directory and
\* the target path exist before the call; mkdir_ok: create_dir_all succeeds;
\* first, retry: what the two git commands would do; dir: the target path
\* exists after the last command.
CreateInputs ==
    {inp \in [parent : BOOLEAN, exists : BOOLEAN, mkdir_ok : BOOLEAN,
              first : GitRuns, retry : GitRuns, dir : BOOLEAN] :
        /\ inp.exists => inp.parent
        /\ inp.parent => inp.mkdir_ok}

\* create that retries after every failure of the first command.
WorktreeCreateRetryAny(inp) ==
    LET Res(ok, cmds) ==
            [ok |-> ok, commands |-> cmds,
             made_parent |-> ~inp.parent /\ inp.mkdir_ok]
        both == <<"add -b", "add">>
    IN  IF ~inp.mkdir_ok THEN Res(FALSE, <<>>)
        ELSE IF inp.exists THEN Res(FALSE, <<>>)
        ELSE IF ~inp.first.spawned THEN Res(FALSE, <<"add -b">>)
        ELSE IF inp.first.success THEN Res(inp.dir, <<"add -b">>)
        ELSE IF ~inp.retry.spawned THEN Res(FALSE, both)
        ELSE IF inp.retry.success THEN Res(inp.dir, both)
        ELSE Res(FALSE, both)

\* create that runs git without looking at the target path first.
WorktreeCreateNoCheck(inp) ==
    LET Res(ok, cmds) ==
            [ok |-> ok, commands |-> cmds,
             made_parent |-> ~inp.parent /\ inp.mkdir_ok]
    IN  IF ~inp.mkdir_ok THEN Res(FALSE, <<>>)
        ELSE IF ~inp.first.spawned THEN Res(FALSE, <<"add -b">>)
        ELSE IF inp.first.success THEN Res(inp.dir, <<"add -b">>)
        ELSE Res(FALSE, <<"add -b">>)

\* WorktreeManager::create: Ok or Err, the git commands it ran, and whether it
\* made the parent directory.
WorktreeCreate(inp) ==
    LET Res(ok, cmds) ==
            [ok |-> ok, commands |-> cmds,
             made_parent |-> ~inp.parent /\ inp.mkdir_ok]
        both == <<"add -b", "add">>
    IN  IF ~inp.mkdir_ok THEN Res(FALSE, <<>>)
        ELSE IF inp.exists THEN Res(FALSE, <<>>)
        ELSE IF ~inp.first.spawned THEN Res(FALSE, <<"add -b">>)
        ELSE IF inp.first.success THEN Res(inp.dir, <<"add -b">>)
        ELSE IF ContainsWords(inp.first.stderr, <<"already", "exists">>)
        THEN IF ~inp.retry.spawned THEN Res(FALSE, both)
             ELSE IF inp.retry.success THEN Res(inp.dir, both)
             ELSE Res(FALSE, both)
        ELSE Res(FALSE, <<"add -b">>)

\* Watcher::create_worktree: the events it sends for branch b around the call
\* of create.
CreateEvents(b, ok) ==
    <<Ev("WorktreeCreating", b, None),
      IF ok THEN Ev("WorktreeCreated", b, None)
      ELSE Ev("WorktreeCreateFailed", b, None)>>

\* Watcher::create_worktree calls create once for a branch.
Create ==
    /\ created.op = "none"
    /\ \E b \in Branches, inp \in CreateInputs :
          LET r == WorktreeCreate(inp)
          IN  created' = [op |-> "create", branch |-> b, input |-> inp,
                          result |-> r, events |-> CreateEvents(b, r.ok)]
    /\ UNCHANGED <<watcherVars, appVars, envVars, histVars, reconciled,
                   classified, ignored, DialogVars, is_fetching,
                   command_logs>>

SpecCreate == Init /\ [][Create]_vars

\* --- Config::should_ignore_branch alone --------------------------------------
\* Branch names and ignore patterns as sequences of characters.
BranchTexts ==
    {<<"m">>, <<"d">>, <<"f">>, <<"f", "/", "t">>}
PatternTexts ==
    {<<"f", "/", "*">>, <<"?">>, <<"d", "x">>, <<"m">>, <<"[">>, <<"[", "*">>}

\* glob::Pattern::new succeeds: no character class is left open (the
\* patterns here hold no "]").
GlobValid(pat) == \A i \in 1..Len(pat) : pat[i] # "["

\* glob::Pattern::matches with the default options, from position i of the
\* pattern and j of the name: "*" matches any run of characters, "?" any one
\* character, every other character itself.
RECURSIVE GlobMatchesFrom(_, _, _, _)
GlobMatchesFrom(pat, name, i, j) ==
    IF i > Len(pat) THEN j > Len(name)
    ELSE IF pat[i] = "*"
    THEN \E k \in j..(Len(name) + 1) : GlobMatchesFrom(pat, name, i + 1, k)
    ELSE /\ j <= Len(name)
         /\ pat[i] = "?" \/ pat[i] = name[j]
         /\ GlobMatchesFrom(pat, name, i + 1, j + 1)

GlobMatches(pat, name) == GlobMatchesFrom(pat, name, 1, 1)

\* should_ignore_branch, the loop over ignore_patterns from index i on.
RECURSIVE IgnoreLoop(_, _, _)
IgnoreLoop(patterns, branch, i) ==
    IF i > Len(patterns) THEN FALSE
    ELSE IF GlobValid(patterns[i]) /\ GlobMatches(patterns[i], branch)
    THEN TRUE
    ELSE IgnoreLoop(patterns, branch, i + 1)

\* should_ignore_branch that stops at the first pattern that does not parse.
ShouldIgnoreStopAtInvalid(untracked, patterns, branch) ==
    \/ branch \in untracked
    \/ \E i \in 1..Len(patterns) :
          /\ GlobMatches(patterns[i], branch)
          /\ \A k \in 1..i : GlobValid(patterns[k])

\* Config::should_ignore_branch on a Config with the given untracked_branches
\* and ignore_patterns.
ShouldIgnore(untracked, patterns, branch) ==
    IF branch \in untracked THEN TRUE
    ELSE IgnoreLoop(patterns, branch, 1)

\* The Configs and branches should_ignore_branch is asked about.
IgnoreInputs ==
    [untracked : SUBSET BranchTexts,
     patterns : SeqsUpTo(PatternTexts, MaxPatterns),
     branch : BranchTexts]

\* One call of should_ignore_branch.
Ignore ==
    /\ ignored.op = "none"
    /\ \E inp \in IgnoreInputs :
          ignored' = [op |-> "ignore", input |-> inp,
                      result |-> ShouldIgnore(inp.untracked, inp.patterns,
                                              inp.branch)]
    /\ UNCHANGED <<watcherVars, appVars, envVars, histVars, reconciled,
                   classified, created, DialogVars, is_fetching,
                   command_logs>>

SpecIgnore == Init /\ [][Ignore]_vars

\* --- the delete confirmation --------------------------------------------------
\* The characters typed into the dialog.
InputChars == {"y", "Y", "e", "s", "S", "n"}

\* char::to_lowercase
to_lowercase_char(c) ==
    CASE c = "Y" -> "y"
      [] c = "S" -> "s"
      [] OTHER -> c

\* str::to_lowercase
to_lowercase(s) == [i \in 1..Len(s) |-> to_lowercase_char(s[i])]

\* ViewMode::DeleteConfirm
DeleteConfirm(b, input) ==
    [mode |-> "DeleteConfirm", branch |-> b, input |-> input]

\* App::delete_selected_worktree with branch b selected. listed: the call of
\* worktree_agent.list() for the main-worktree check returned Ok.
delete_selected_worktree(b, listed) ==
    IF items[b] \notin {"LocalActive", "LocalPrunable"} THEN view_mode
    ELSE IF listed /\ b \in worktrees /\ b = main_worktree THEN view_mode
    ELSE DeleteConfirm(b, <<>>)

\* App::do_delete_worktree, up to update_branch_list. ok: get_worktree_path
\* and "git worktree remove" succeeded; git never removes the main worktree.
do_delete_worktree(w, b, ok) ==
    IF ok /\ b \in w.worktrees /\ b # main_worktree
    THEN [w EXCEPT !.worktrees = @ \ {b}]
    ELSE w

\* handle_main_keys, 'd'.
KeyDelete ==
    /\ pc = "key"
    /\ view_mode.mode = "Main"
    /\ \E b \in DOMAIN items, listed \in BOOLEAN :
          view_mode' = delete_selected_worktree(b, listed)
    /\ last_key' = "d"
    /\ pc' = "drain"
    /\ UNCHANGED <<watcherVars, events, ConfigVars, last_fetch, items, envVars,
                   histVars, CallVars, main_worktree, is_fetching,
                   command_logs>>

\* handle_delete_confirm_keys, Esc.
DeleteConfirmEsc ==
    /\ pc = "key"
    /\ view_mode.mode = "DeleteConfirm"
    /\ view_mode' = MainView
    /\ last_key' = "Esc"
    /\ pc' = "drain"
    /\ UNCHANGED <<watcherVars, events, ConfigVars, last_fetch, items, envVars,
                   histVars, CallVars, main_worktree, is_fetching,
                   command_logs>>

\* handle_delete_confirm_keys, Enter.
DeleteConfirmEnter ==
    /\ pc = "key"
    /\ view_mode.mode = "DeleteConfirm"
    /\ IF to_lowercase(view_mode.input) = <<"y", "e", "s">>
       THEN /\ view_mode' = MainView
            /\ \E ok \in BOOLEAN :
                  LET w == do_delete_worktree(W, view_mode.branch, ok)
                  IN  /\ Commit(w)
                      /\ items' = update_branch_list(w, untracked_branches)
       ELSE /\ view_mode' = view_mode
            /\ Commit(W)
            /\ items' = items
    /\ last_key' = "Enter"
    /\ pc' = "drain"
    /\ UNCHANGED <<ConfigVars, CallVars, main_worktree, is_fetching,
                   command_logs>>

\* handle_delete_confirm_keys, Backspace.
DeleteConfirmBackspace ==
    /\ pc = "key"
    /\ view_mode.mode = "DeleteConfirm"
    /\ view_mode' = [view_mode EXCEPT
                        !.input = IF @ = <<>> THEN @
                                  ELSE SubSeq(@, 1, Len(@) - 1)]
    /\ last_key' = "Backspace"
    /\ pc' = "drain"
    /\ UNCHANGED <<watcherVars, events, ConfigVars, last_fetch, items, envVars,
                   histVars, CallVars, main_worktree, is_fetching,
                   command_logs>>

\* handle_delete_confirm_keys, a character.
DeleteConfirmChar ==
    /\ pc = "key"
    /\ view_mode.mode = "DeleteConfirm"
    /\ Len(view_mode.input) < MaxInput
    /\ \E c \in InputChars :
          view_mode' = [view_mode EXCEPT !.input = Append(@, c)]
    /\ last_key' = "Char"
    /\ pc' = "drain"
    /\ UNCHANGED <<watcherVars, events, ConfigVars, last_fetch, items, envVars,
                   histVars, CallVars, main_worktree, is_fetching,
                   command_logs>>

\* The repository has three remote branches; the main worktree has the
\* first checked out and a linked worktree the second.
InitDelete ==
    /\ known_branches =
           init(EmptyMap, RemoteScan(Branches, "origin", "c1"),
                LocalScan({BranchOrder[1], BranchOrder[2]}, "c1"))
    /\ running_hooks = EmptyMap
    /\ fetch_in_progress = FALSE
    /\ pending_branches = <<>>
    /\ current_processing = None
    /\ events = <<>>
    /\ pc = "drain"
    /\ post_create_command = FALSE
    /\ auto_create_worktrees = FALSE
    /\ untracked_branches = {}
    /\ remote_name = "origin"
    /\ last_fetch = 0
    /\ worktrees = {BranchOrder[1], BranchOrder[2]}
    /\ fetch_threads = 0
    /\ enqLog = <<>>
    /\ createLog = <<>>
    /\ busyStart = FALSE
    /\ fetchLog = <<>>
    /\ overlapped = FALSE
    /\ reconciled = [op |-> "none"]
    /\ classified = [op |-> "none"]
    /\ created = [op |-> "none"]
    /\ ignored = [op |-> "none"]
    /\ view_mode = MainView
    /\ main_worktree = BranchOrder[1]
    /\ last_key = None
    /\ is_fetching = FALSE
    /\ command_logs = <<>>
    /\ items = update_branch_list(W, {})

\* The driver with the keys of the main view and of the dialog that delete.
NextDelete ==
    \/ CheckRunningHooks \/ DrainDone \/ PollNotDue \/ KeyNone
    \/ KeyDelete \/ DeleteConfirmEsc \/ DeleteConfirmEnter
    \/ DeleteConfirmBackspace \/ DeleteConfirmChar

SpecDelete == InitDelete /\ [][NextDelete]_vars

\* --- the command logs -----------------------------------------------------------
\* CommandLog::new and CommandLog::new_system. exit_code: <<>> is None, <<c>>
\* is Some(c).
CommandLogNew(branch, system) ==
    [branch |-> branch, is_system_log |-> system, is_running |-> TRUE,
     exit_code |-> <<>>, output |-> <<>>]

\* add_output that takes Error for an output line.
add_output_exit_only(log, o) ==
    LET l == IF o.kind = "Exit"
             THEN [log EXCEPT !.is_running = FALSE, !.exit_code = <<o.val>>]
             ELSE IF o.kind = "Error"
             THEN [log EXCEPT !.is_running = FALSE]
             ELSE log
    IN  [l EXCEPT !.output = Append(@, o)]

\* CommandLog::add_output
add_output(log, o) ==
    LET l == IF o.kind = "Exit"
             THEN [log EXCEPT !.is_running = FALSE, !.exit_code = <<o.val>>]
             ELSE IF o.kind = "Error"
             THEN [log EXCEPT !.is_running = FALSE, !.exit_code = <<-1>>]
             ELSE log
    IN  [l EXCEPT !.output = Append(@, o)]

\* CommandLog::succeeded
succeeded(log) == log.exit_code = <<0>>

\* A text is a sequence of tokens, "nl" the line break. [String]::join("\n")
RECURSIVE join(_)
join(lines) ==
    IF lines = <<>> THEN <<>>
    ELSE IF Len(lines) = 1 THEN lines[1]
    ELSE lines[1] \o <<"nl">> \o join(Tail(lines))

\* str::lines: the pieces between line breaks; a final line break ends the
\* last line and starts no empty one.
RECURSIVE str_lines(_)
str_lines(text) ==
    IF text = <<>> THEN <<>>
    ELSE LET nl == {i \in 1..Len(text) : text[i] = "nl"}
         IN  IF nl = {} THEN <<text>>
             ELSE LET k == CHOOSE i \in nl : \A j \in nl : i <= j
                  IN  <<SubSeq(text, 1, k - 1)>>
                      \o str_lines(SubSeq(text, k + 1, Len(text)))

\* add_fetch_log, the loop over the lines from i on.
RECURSIVE AddLines(_, _, _)
AddLines(log, lines, i) ==
    IF i > Len(lines) THEN log
    ELSE AddLines(add_output(log, Msg("Stdout", lines[i])), lines, i + 1)

\* add_worktree_log, the loop over the messages from i on.
RECURSIVE AddMessages(_, _, _)
AddMessages(log, messages, i) ==
    IF i > Len(messages) THEN log
    ELSE AddMessages(
             add_output(log,
                        Msg(IF SubSeq(messages[i], 1, 1) = <<"ERROR:">>
                            THEN "Stderr" ELSE "Stdout", messages[i])),
             messages, i + 1)

\* add_fetch_log that closes the log of a failed fetch with exit code 1.
add_fetch_log_failed(logs, remote, text) ==
    LET lines == str_lines(text)
    IN  Append(logs,
               add_output(AddLines(CommandLogNew(<<"fetch:", remote>>, TRUE),
                                   lines, 1),
                          Msg("Exit", IF SubSeq(text, 1, 1) = <<"Error:">>
                                      THEN 1 ELSE 0)))

\* Watcher::add_fetch_log
add_fetch_log(logs, remote, text) ==
    Append(logs,
           add_output(AddLines(CommandLogNew(<<"fetch:", remote>>, TRUE),
                               str_lines(text), 1),
                      Msg("Exit", 0)))

\* Watcher::add_fetch_success_log
add_fetch_success_log(logs, remote) ==
    Append(logs,
           add_output(add_output(CommandLogNew(<<"fetch:", remote>>, TRUE),
                                 Msg("Stdout", <<"Fetch", "sp", "successful">>)),
                      Msg("Exit", 0)))

\* Watcher::add_worktree_log
add_worktree_log(logs, b, messages) ==
    Append(logs,
           add_output(AddMessages(CommandLogNew(b, FALSE), messages, 1),
                      Msg("Exit", 0)))

\* check_running_hooks on a message o of b's session: the latest log of b,
\* if there is one, takes it.
log_hook_output(logs, b, o) ==
    LET mine == {i \in 1..Len(logs) : logs[i].branch = b}
    IN  IF mine = {} THEN logs
        ELSE LET k == CHOOSE i \in mine : \A j \in mine : j <= i
             IN  [logs EXCEPT ![k] = add_output(@, o)]

\* The logs and their outputs together.
RECURSIVE LogSize(_)
LogSize(logs) ==
    IF logs = <<>> THEN 0
    ELSE 1 + Len(Head(logs).output) + LogSize(Tail(logs))

LogsUnchanged ==
    UNCHANGED <<watcherVars, appVars, envVars, histVars, CallVars, DialogVars,
                is_fetching>>

\* What FetchCompleted carries: None, one message, two messages.
CompletedOutputs ==
    {e.arg : e \in {x \in {fetch_result(inp) : inp \in DriverFetchInputs} :
                        x.type = "FetchCompleted"}}
    \cup {<< << <<"warning", "sp", "x">>, <<"x">> >> >>}

\* What FetchFailed carries: the spawn error, or git's stderr as written.
FailedTexts ==
    {<<"x">>, <<"fatal", "sp", "x", "nl">>,
     <<"warning", "sp", "x", "nl", "fatal", "sp", "x", "nl">>}

\* process_watcher_events, FetchCompleted: the log of the fetch.
FetchCompletedLog ==
    /\ \E out \in CompletedOutputs :
          command_logs' =
              IF out = <<>> THEN add_fetch_success_log(command_logs, remote_name)
              ELSE add_fetch_log(command_logs, remote_name, join(out[1]))
    /\ LogSize(command_logs') <= MaxLogSize
    /\ LogsUnchanged

\* process_watcher_events, FetchFailed: the log of the fetch.
FetchFailedLog ==
    /\ \E text \in FailedTexts :
          command_logs' = add_fetch_log(command_logs, remote_name,
                                        <<"Error:", "sp">> \o text)
    /\ LogSize(command_logs') <= MaxLogSize
    /\ LogsUnchanged

\* create_worktree: the log of "git worktree add".
WorktreeLog ==
    /\ \E b \in Branches,
          messages \in {<<>>, << <<"x">> >>, << <<"ERROR:", "sp", "x">> >>} :
          command_logs' = add_worktree_log(command_logs, b, messages)
    /\ LogSize(command_logs') <= MaxLogSize
    /\ LogsUnchanged

\* run_hook: the log of the hook.
HookLog ==
    /\ \E b \in Branches :
          command_logs' = Append(command_logs, CommandLogNew(b, FALSE))
    /\ LogSize(command_logs') <= MaxLogSize
    /\ LogsUnchanged

\* check_running_hooks: a message of a hook session reaches its log.
HookLogOutput ==
    /\ \E b \in Branches,
          o \in {Msg("Stdout", <<"x">>), Msg("Stderr", <<"x">>),
                 Msg("Error", "spawn")} \cup {Msg("Exit", c) : c \in ExitCodes} :
          command_logs' = log_hook_output(command_logs, b, o)
    /\ command_logs' # command_logs
    /\ LogSize(command_logs') <= MaxLogSize
    /\ LogsUnchanged

\* The writers of watcher.command_logs, in any order.
NextLogs ==
    \/ FetchCompletedLog \/ FetchFailedLog \/ WorktreeLog \/ HookLog
    \/ HookLogOutput

SpecLogs == InitSession /\ [][NextLogs]_vars

\* ----------------------------------------------------------------- claims
\* C1: with queue_branch calls interleaved with driver drains, at most one
\* branch is being provisioned: no creation starts while a hook session still
\* exists, there is at most one hook session, and it belongs to the branch in
\* current_processing.
AtMostOneProvisioning ==
    /\ ~busyStart
    /\ Cardinality(DOMAIN running_hooks) <= 1
    /\ DOMAIN running_hooks \subseteq {current_processing}

\* Two branches wait behind a branch whose hook is running.
TwoWaitBehindHook ==
    /\ current_processing = "a"
    /\ "a" \in DOMAIN running_hooks
    /\ pending_branches = <<"b", "c">>

\* C2: the WorktreeCreating events are sent in the order in which the
\* branches entered pending: the enqueue history is the creation history
\* followed by what is still pending.
FifoOrder == enqLog = createLog \o pending_branches

\* The second of three branches was started while the third, queued while an
\* earlier one was current, still waits.
FifoMidway ==
    /\ enqLog = <<"c", "a", "b">>
    /\ createLog = <<"c", "a">>
    /\ current_processing = "a"
    /\ pending_branches = <<"b">>

\* The driver handles the event e at the head of the channel.
Handles(t) ==
    /\ pc = "events"
    /\ events # <<>>
    /\ Head(events).type = t
    /\ events' # events
    /\ fetch_threads' = fetch_threads

\* The last two events sent.
LastTwo(evs) == IF Len(evs) < 2 THEN <<>> ELSE SubSeq(evs, Len(evs) - 1, Len(evs))

\* C3: a creation that fails sends WorktreeCreateFailed for its branch and
\* clears current_processing; and when the driver handles that event while a
\* branch waits and none is current, the creation of the waiting branch is
\* started in that same step.
NoStallOnFailure ==
    [][/\ \A x \in Branches :
             createLog' = Append(createLog, x) /\ worktrees' = worktrees
             => /\ current_processing' = None
                /\ LastTwo(events') = <<Ev("WorktreeCreating", x, None),
                                        Ev("WorktreeCreateFailed", x, None)>>
       /\ Handles("WorktreeCreateFailed") /\ pending_branches # <<>>
             /\ current_processing = None
          => /\ createLog' = Append(createLog, Head(pending_branches))
             /\ Contains(events',
                         Ev("WorktreeCreating", Head(pending_branches), None))
      ]_vars

\* b's creation failed while c waited, and c was started.
NextStartedAfterFailure ==
    /\ createLog = <<"a", "b", "c">>
    /\ worktrees = {"a", "c"}
    /\ current_processing = "c"

\* How often b occurs in log.
Count(log, b) == Cardinality({i \in 1..Len(log) : log[i] = b})

\* C4: when the driver keeps draining and every hook exits, a branch in
\* pending is eventually made current (its WorktreeCreating is sent once
\* more) and is eventually neither pending nor current.
EveryPendingBranchProcessed ==
    \A b \in Branches :
        /\ \A n \in 0..MaxEnq :
              (is_pending(W, b) /\ Count(createLog, b) = n)
                  ~> (Count(createLog, b) > n)
        /\ is_pending(W, b) ~> (~is_pending(W, b) /\ ~is_current(W, b))

\* The branch that waited behind two others was created and its hook session
\* was reaped.
LastOfThreeDone ==
    /\ createLog = <<"a", "b", "c">>
    /\ "c" \in worktrees
    /\ current_processing = None
    /\ pending_branches = <<>>
    /\ running_hooks = EmptyMap
    /\ post_create_command

\* C5: while fetch_in_progress is set, start_fetch changes nothing, no step
\* sends FetchStarted or spawns a fetch thread, and at most one fetch thread
\* is in flight.
StartFetchNoOpWhileInProgress ==
    /\ [](fetch_in_progress => start_fetch(W) = W)
    /\ [](fetch_threads <= 1)
    /\ [][fetch_in_progress =>
             /\ Started(fetchLog') = Started(fetchLog)
             /\ fetch_threads' <= fetch_threads
             /\ Count([i \in 1..Len(events') |-> events'[i].type], "FetchStarted")
                    <= Count([i \in 1..Len(events) |-> events[i].type],
                             "FetchStarted")]_vars

\* start_fetch was called during a fetch, whose thread is still running.
StartFetchCalledDuringFetch ==
    /\ overlapped
    /\ fetch_in_progress
    /\ fetch_threads = 1

\* C7: the fetch events alternate: FetchStarted, then the one completion
\* event of that fetch (FetchCompleted or FetchFailed), then the next
\* FetchStarted; the fetch thread is running exactly between the two.
OneCompletionPerFetch ==
    /\ \A i \in 1..Len(fetchLog) :
          IF i % 2 = 1 THEN fetchLog[i] = "FetchStarted"
          ELSE fetchLog[i] \in {"FetchCompleted", "FetchFailed"}
    /\ fetch_threads = Len(fetchLog) % 2

\* Two fetches ran one after the other, one failed and one completed.
TwoFetchesInTurn ==
    /\ Len(fetchLog) = 4
    /\ fetchLog[2] = "FetchFailed"
    /\ fetchLog[4] = "FetchCompleted"

\* A line is benign as written: it begins with "warning", "hint:" or
\* "from " or contains the benign substring.
BenignAsWritten(line) ==
    \/ StartsWith(line, <<"warning">>)
    \/ StartsWith(line, <<"hint:">>)
    \/ StartsWith(line, <<"from", "sp">>)
    \/ Contains(line, "post-quantum")

\* The classification of fetch input inp when a failure exit counts as
\* failed exactly if RealError holds of some stderr line.
ClassifiedBy(RealError(_)) ==
    classified.op = "fetch" =>
        LET inp == classified.input
            e == classified.event
            blank == \A i \in 1..Len(inp.stderr \o inp.stdout) :
                         Trim((inp.stderr \o inp.stdout)[i]) = <<>>
        IN  /\ ~inp.spawned => e.type = "FetchFailed"
            /\ inp.spawned /\ inp.success => e.type = "FetchCompleted"
            /\ inp.spawned /\ ~inp.success =>
                  (e.type = "FetchFailed"
                      <=> \E i \in 1..Len(inp.stderr) : RealError(inp.stderr[i]))
            /\ e.type = "FetchCompleted" => (e.arg = <<>> <=> blank)

RealAsWritten(line) == line # <<>> /\ ~BenignAsWritten(line)

RealWhenNormalised(line) ==
    ToLowercase(Trim(line)) # <<>> /\ ~BenignAsWritten(ToLowercase(Trim(line)))

\* C6 as stated: a failure exit yields FetchFailed exactly if some stderr
\* line, as git wrote it, is non-empty and not benign.
ClassifiedAsWritten == ClassifiedBy(RealAsWritten)

\* C6: a spawn error yields FetchFailed, a success exit FetchCompleted, and a
\* failure exit FetchFailed exactly if some stderr line, with surrounding
\* white space removed and in lower case, is non-empty and not benign;
\* FetchCompleted carries no text exactly if every captured line is blank.
ClassifiedWhenNormalised == ClassifiedBy(RealWhenNormalised)

\* A failed fetch that wrote only a capitalised benign line and a blank line
\* was classified as completed.
CapitalisedBenignCompleted ==
    /\ classified.op = "fetch"
    /\ classified.input.spawned /\ ~classified.input.success
    /\ classified.input.stderr = << <<"From", "sp", "x">>, <<"sp">> >>
    /\ classified.event.type = "FetchCompleted"

\* The record of name n in scan.
RecordOf(scan, n) == scan[CHOOSE i \in 1..Len(scan) : scan[i].name = n]

\* C8: after a reconcile the registry holds exactly the names of the remote
\* and the local scan, and the names reported as new are, in scan order,
\* the names of the fresh remote scan that were not in the registry before
\* and are not ignored.
ReconcileNames ==
    reconciled.op = "reconcile" =>
        /\ DOMAIN reconciled.after
              = Names(reconciled.remote) \cup Names(reconciled.local)
        /\ reconciled.new
              = SelectSeq([i \in 1..Len(reconciled.remote) |->
                              reconciled.remote[i].name],
                          LAMBDA n : /\ n \notin DOMAIN reconciled.before
                                     /\ ~should_ignore_branch(n))

\* A reconcile removed a name neither scan reports and reported a new one.
ReconcileRemovedAndFound ==
    /\ reconciled.op = "reconcile"
    /\ "a" \in DOMAIN reconciled.before
    /\ "a" \notin DOMAIN reconciled.after
    /\ reconciled.new = <<"b">>

\* C9: after a reconcile every name in both scans is recorded with the
\* record of the remote scan.
ReconcileRemoteWins ==
    reconciled.op = "reconcile" =>
        \A n \in Names(reconciled.remote) \cap Names(reconciled.local) :
            reconciled.after[n] = RecordOf(reconciled.remote, n)

\* C10: after init every name of the remote or the local scan is recorded,
\* a name of the remote scan with the record of that scan, and a name of the
\* local scan alone with a local record or the record it had before.
InitRemoteWins ==
    reconciled.op = "init" =>
        /\ Names(reconciled.remote) \cup Names(reconciled.local)
              \subseteq DOMAIN reconciled.after
        /\ \A n \in Names(reconciled.remote) :
              reconciled.after[n] = RecordOf(reconciled.remote, n)
        /\ \A n \in Names(reconciled.local) \ Names(reconciled.remote) :
              reconciled.after[n]
                  = IF n \in DOMAIN reconciled.before THEN reconciled.before[n]
                    ELSE RecordOf(reconciled.local, n)
        /\ \A n \in DOMAIN reconciled.after :
              reconciled.after[n].is_local => n \notin Names(reconciled.remote)

\* init was called again on a registry that held a local record for a name
\* both scans now report.
InitAgainOverLocal ==
    /\ reconciled.op = "init"
    /\ "a" \in DOMAIN reconciled.before
    /\ reconciled.before["a"].is_local
    /\ "a" \in Names(reconciled.remote) \cap Names(reconciled.local)

\* C11: no step removes from the registry a branch that is pending or
\* current when the step begins.
QueuedBranchesStayKnown ==
    [][\A b \in Branches :
          (is_pending(W, b) \/ is_current(W, b)) /\ b \in DOMAIN known_branches
          => b \in DOMAIN known_branches']_vars

\* C12: a step that enqueues x on an idle queue while no post-create command
\* is configured sends WorktreeCreating(x) and then, the worktree having been
\* created, WorktreeCreated(x) (WorktreeCreateFailed(x) when it was not),
\* starts no hook, and ends with the queue empty and current cleared.
RoundTripWithoutHook ==
    [][\A x \in Branches :
          /\ ~post_create_command
          /\ current_processing = None
          /\ pending_branches = <<>>
          /\ enqLog' = Append(enqLog, x)
          => /\ events' = events \o
                    <<Ev("WorktreeCreating", x, None),
                      IF x \in worktrees' \ worktrees
                      THEN Ev("WorktreeCreated", x, None)
                      ELSE Ev("WorktreeCreateFailed", x, None)>>
             /\ running_hooks' = running_hooks
             /\ pending_branches' = <<>>
             /\ current_processing' = None]_vars

\* The call has just returned: the two events of a successful creation of "a"
\* are on the channel, nothing is queued and nothing is current.
RoundTripDone ==
    /\ ~post_create_command
    /\ pc = "drain"
    /\ enqLog = <<"a">>
    /\ events = <<Ev("WorktreeCreating", "a", None),
                  Ev("WorktreeCreated", "a", None)>>
    /\ "a" \in worktrees
    /\ pending_branches = <<>>
    /\ current_processing = None
    /\ running_hooks = EmptyMap

\* The messages of session b not yet delivered to the driver's event
\* handlers, oldest first: those already turned into events, then those still
\* on the session's channel.
Undelivered(b) ==
    LET evs == SelectSeq(events,
                   LAMBDA e : e.branch = b
                              /\ e.type \in {"HookOutput", "HookCompleted"})
        sent == [i \in 1..Len(evs) |->
                    IF evs[i].type = "HookOutput" THEN evs[i].arg
                    ELSE Msg("Exit", evs[i].arg)]
    IN  sent \o (IF b \in DOMAIN running_hooks
                 THEN running_hooks[b].chan ELSE <<>>)

\* The lines of stream k in q are consecutive lines of the command, in the
\* order it produced them.
InProductionOrder(q, k) ==
    LET lines == SelectSeq(q, LAMBDA m : m.kind = k)
    IN  \A i \in 1..(Len(lines) - 1) : lines[i + 1].val = lines[i].val + 1

SpawnFailed(b) ==
    /\ b \in DOMAIN running_hooks
    /\ \E i \in 1..Len(running_hooks[b].chan) :
           running_hooks[b].chan[i].kind = "Error"

\* C14: a session whose spawn failed carries one Error message and nothing
\* else; the check_running_hooks that receives it sends exactly one event for
\* the branch, HookCompleted(b, -1), drops the session and clears current;
\* the handler of that event starts the head of the queue, as it does after
\* an exit code.
SpawnFailureCompletes ==
    /\ [](\A b \in Branches :
             SpawnFailed(b) => running_hooks[b].chan = <<Msg("Error", "spawn")>>)
    /\ [][\A b \in Branches :
             /\ pc = "drain" /\ SpawnFailed(b)
                => /\ {events'[i] : i \in (Len(events) + 1)..Len(events')}
                         \cap {e \in {events'[i] : i \in 1..Len(events')} :
                                  e.branch = b}
                      = {Ev("HookCompleted", b, -1)}
                   /\ b \notin DOMAIN running_hooks'
                   /\ current_processing' # b
             /\ /\ pc = "events" /\ events # <<>>
                /\ Head(events).type = "HookCompleted"
                /\ Head(events).branch = b
                /\ current_processing = None /\ pending_branches # <<>>
                => /\ pending_branches' = Tail(pending_branches)
                   /\ createLog' = Append(createLog, Head(pending_branches))]_vars

\* The hook of "a" could not be spawned while "b" was queued: the driver has
\* sent HookCompleted("a", -1), dropped the session and cleared current, and
\* is about to handle the event.
SpawnFailureReported ==
    /\ pc = "events"
    /\ events # <<>>
    /\ Head(events) = Ev("HookCompleted", "a", -1)
    /\ "a" \notin DOMAIN running_hooks
    /\ current_processing = None
    /\ pending_branches = <<"b">>

CurrentIffHookSession ==
    \A b \in Branches : is_current(W, b) <=> has_running_hook(W, b)

\* C17: at most one hook session exists at any time, and no worktree
\* creation started while a hook session existed.
OneProvisioningPipeline ==
    /\ Cardinality(DOMAIN running_hooks) <= 1
    /\ ~busyStart

ExistingPathFailsFast ==
    created.op = "create" /\ created.input.exists =>
        /\ ~created.result.ok
        /\ created.result.commands = <<>>
        /\ ~created.result.made_parent
        /\ created.events
              = <<Ev("WorktreeCreating", created.branch, None),
                  Ev("WorktreeCreateFailed", created.branch, None)>>

\* create was called for a path that exists; git would have succeeded.
ExistingPathRejected ==
    /\ created.op = "create"
    /\ created.input.exists
    /\ created.input.first.spawned /\ created.input.first.success
    /\ created.events[2].type = "WorktreeCreateFailed"

\* C20: should_ignore_branch is true exactly when the branch is in the
\* untracked set or matches a pattern of ignore_patterns that parses.
IgnoredIffUntrackedOrMatched ==
    ignored.op = "ignore" =>
        LET inp == ignored.input
        IN  ignored.result
            <=> \/ inp.branch \in inp.untracked
                \/ \E i \in 1..Len(inp.patterns) :
                      /\ GlobValid(inp.patterns[i])
                      /\ GlobMatches(inp.patterns[i], inp.branch)

\* A branch that is not untracked was ignored through the second pattern,
\* the first one not being a valid glob.
IgnoredAfterInvalidPattern ==
    /\ ignored.op = "ignore"
    /\ ignored.input.untracked = {}
    /\ ignored.input.patterns = << <<"[">>, <<"f", "/", "*">> >>
    /\ ignored.input.branch = <<"f", "/", "t">>
    /\ ignored.result

\* The completion events of fetches waiting on the event channel.
UndrainedCompletions ==
    {i \in 1..Len(events) : events[i].type \in {"FetchCompleted", "FetchFailed"}}

\* C21: fetch_in_progress holds while a fetch thread runs or its completion
\* event waits on the channel, and there is at most one such fetch; the only
\* step that clears the flag is the driver handling a completion event; and
\* the flag, once set, is cleared again.
FlagClearedOnlyByAcknowledgement ==
    /\ [](/\ fetch_threads + Cardinality(UndrainedCompletions) <= 1
          /\ fetch_threads + Cardinality(UndrainedCompletions) = 1
                => fetch_in_progress)
    /\ [][fetch_in_progress /\ ~fetch_in_progress'
            => /\ pc = "events" /\ events # <<>>
               /\ Head(events).type \in {"FetchCompleted", "FetchFailed"}]_vars
    /\ (fetch_in_progress ~> ~fetch_in_progress)

\* The fetch thread has ended and its completion event waits on the channel
\* while the driver is about to handle a key: the flag is still set.
CompletionUndrainedAtKey ==
    /\ pc = "key"
    /\ fetch_threads = 0
    /\ UndrainedCompletions # {}
    /\ fetch_in_progress

ScanFailureSurfaced ==
    [][/\ pc = "events" /\ events # <<>>
       /\ Head(events).type = "FetchCompleted"
       /\ known_branches' = EmptyMap
       => /\ \/ \E i \in 1..Len(events') : events'[i].type = "FetchFailed"
             \/ StatusAfterFetchCompleted.last_error # None
          /\ last_fetch' = last_fetch]_vars

\* The step is the driver taking the event at the head of the channel: the
\* rest of the channel moves up and no thread has moved.
DriverTakesHead ==
    /\ pc = "events" /\ events # <<>>
    /\ Len(events') >= Len(events) - 1
    /\ SubSeq(events', 1, Len(events) - 1) = Tail(events)
    /\ fetch_threads' = fetch_threads
    /\ \A b \in DOMAIN running_hooks \cap DOMAIN running_hooks' :
           running_hooks'[b] = running_hooks[b]

\* C24: when process_watcher_events or a key handler has returned, a
\* non-empty pending comes with a current branch; and with no post-create
\* command the handler of WorktreeCreated starts the head of pending within
\* the drain.
NoIdleGap ==
    /\ [](pc \in {"poll", "drain"} /\ pending_branches # <<>>
            => current_processing # None)
    /\ [][/\ DriverTakesHead
          /\ Head(events).type = "WorktreeCreated"
          /\ ~post_create_command
          /\ current_processing = None /\ pending_branches # <<>>
          => /\ createLog' = Append(createLog, Head(pending_branches))
             /\ pending_branches' = Tail(pending_branches)
             /\ pc' = "events"]_vars

\* Mid-drain, without a post-create command: "a" and "b" were created one
\* after the other, and the handler of WorktreeCreated("b") is about to start
\* "c", the last pending branch.
ChainingToThird ==
    /\ pc = "events"
    /\ ~post_create_command
    /\ events # <<>>
    /\ Head(events) = Ev("WorktreeCreated", "b", None)
    /\ createLog = <<"a", "b">>
    /\ current_processing = None
    /\ pending_branches = <<"c">>

\* The exit code on the channel of session b, from the child's exit status.
ExitedWith(b, c) ==
    /\ b \in DOMAIN running_hooks
    /\ running_hooks[b].chan # <<>>
    /\ running_hooks[b].chan[Len(running_hooks[b].chan)] = Msg("Exit", c)

\* C25: the check_running_hooks that receives Exit(c) of session b sends
\* HookCompleted(b, c) with that code, drops the session and clears current;
\* the handler of HookCompleted leaves the watcher as try_process_next does,
\* whatever the code.
ExitCodeIsData ==
    /\ [][\A b \in Branches, c \in ExitCodes :
             pc = "drain" /\ ExitedWith(b, c)
             => /\ \E i \in (Len(events) + 1)..Len(events') :
                      events'[i] = Ev("HookCompleted", b, c)
                /\ b \notin DOMAIN running_hooks'
                /\ current_processing' # b]_vars
    /\ [][DriverTakesHead /\ Head(events).type = "HookCompleted"
            => \E g \in DriverGitOutcomes :
                  W' = try_process_next([W EXCEPT !.events = Tail(@)], g,
                                        post_create_command)]_vars

\* The hook of "a" exited with code 1 while "b" was queued: the driver has
\* sent HookCompleted("a", 1) and is about to handle it.
NonZeroExitReported ==
    /\ pc = "events"
    /\ events # <<>>
    /\ Head(events) = Ev("HookCompleted", "a", 1)
    /\ "a" \notin DOMAIN running_hooks
    /\ current_processing = None
    /\ pending_branches = <<"b">>

\* Session b is in flight: no terminal message is on its channel and its
\* thread has not finished.
InFlight(b) ==
    /\ b \in DOMAIN running_hooks
    /\ ~SessionCompleted(running_hooks[b])

\* The events a step sent; a handler step first took the head.
Sent ==
    IF DriverTakesHead
    THEN SubSeq(events', Len(events), Len(events'))
    ELSE SubSeq(events', Len(events) + 1, Len(events'))

\* C26: no step of the driver takes an in-flight hook session out of
\* running_hooks, starts another session in its place (HookStarted is sent
\* again) or moves current_processing off its branch, and the create-worktree
\* dialog with start_hook would not either in any reachable state;
\* fetch_in_progress goes from set to clear only in the handler of
\* FetchCompleted or FetchFailed.
NoMidFlightCancellation ==
    /\ [](\A b \in DOMAIN running_hooks :
            InFlight(b)
            => \A nb \in Branches, ok \in BOOLEAN :
                  LET w == do_create_new_worktree(W, nb, ok,
                                                  post_create_command)
                  IN  /\ b \in DOMAIN w.running_hooks
                      /\ w.running_hooks[b] = running_hooks[b]
                      /\ \A i \in (Len(events) + 1)..Len(w.events) :
                             w.events[i] # Ev("HookStarted", b, None)
                      /\ (current_processing = b
                             => w.current_processing = b)
                      /\ w.fetch_in_progress = fetch_in_progress)
    /\ [][\A b \in DOMAIN running_hooks :
             InFlight(b)
             => /\ b \in DOMAIN running_hooks'
                /\ running_hooks'[b].nout >= running_hooks[b].nout
                /\ running_hooks'[b].nerr >= running_hooks[b].nerr
                /\ \A i \in 1..Len(Sent) :
                       Sent[i] # Ev("HookStarted", b, None)
                /\ (current_processing = b => current_processing' = b)]_vars
    /\ [][fetch_in_progress /\ ~fetch_in_progress'
            => /\ DriverTakesHead
               /\ Head(events).type \in {"FetchCompleted", "FetchFailed"}
               /\ fetch_threads = 0]_vars

\* The hook of "a" is in flight and "a" is current; "b" was queued behind
\* it, the post-create command was switched off in the settings, and the
\* driver is about to handle the completion of a fetch.
HookInFlightWhileDriverWorks ==
    /\ InFlight("a")
    /\ current_processing = "a"
    /\ pending_branches = <<"b">>
    /\ ~post_create_command
    /\ fetch_in_progress
    /\ pc = "events"
    /\ events # <<>>
    /\ Head(events).type = "FetchCompleted"

\* C27: while the hook session of the current branch has no terminal
\* message, every step, whatever it handles, leaves current_processing on
\* that branch, starts no provisioning (createLog) and takes nothing from
\* pending_branches; so a hook that never ends holds the pipeline forever.
NoTimeout ==
    [][\A b \in DOMAIN running_hooks :
          InFlight(b) /\ current_processing = b
          => /\ current_processing' = b
             /\ createLog' = createLog
             /\ Len(pending_branches') >= Len(pending_branches)
             /\ SubSeq(pending_branches', 1, Len(pending_branches))
                    = pending_branches]_vars

\* The hook of "a" is still in flight after a fetch was completed and "b"
\* and "c" were enqueued: "a" is current, both wait, and "a" is the only
\* branch ever provisioned.
StuckBehindHook ==
    /\ InFlight("a")
    /\ current_processing = "a"
    /\ pending_branches = <<"b", "c">>
    /\ createLog = <<"a">>
    /\ last_fetch = 1
    /\ ~fetch_in_progress
    /\ pc = "key"

\* s is a prefix of t.
IsPrefix(s, t) == Len(s) <= Len(t) /\ SubSeq(t, 1, Len(s)) = s

\* C28: the channel is first-in first-out under the driver: a step either
\* only adds at the end, or is a step of the drain's loop that takes exactly
\* the head and adds at the end; the drain starts with check_running_hooks,
\* stays in its loop while the channel holds an event, whoever sent it, and
\* ends only on an empty channel, which every drain reaches.
InOrderDrain ==
    /\ [][\/ IsPrefix(events, events')
          \/ /\ pc = "events" /\ pc' = "events"
             /\ events # <<>>
             /\ IsPrefix(Tail(events), events')]_vars
    /\ [][pc = "drain" /\ pc' # "drain"
            => /\ pc' = "events"
               /\ \E order \in [1..Cardinality(DOMAIN running_hooks)
                                    -> DOMAIN running_hooks] :
                      /\ SeqToSet(order) = DOMAIN running_hooks
                      /\ W' = check_running_hooks(W, order)]_vars
    /\ [][pc = "events" /\ pc' # "events"
            => events = <<>> /\ events' = <<>> /\ pc' = "poll"]_vars
    /\ (pc = "drain" ~> (pc = "poll" /\ events = <<>>))

\* Mid-drain: check_running_hooks reported the end of the hook of "a", the
\* handler of HookCompleted started "b", and the events of "b", sent within
\* this drain, are next on the channel.
ChainedEventsInSameDrain ==
    /\ pc = "events"
    /\ createLog = <<"a", "b">>
    /\ "a" \notin DOMAIN running_hooks
    /\ Len(events) >= 2
    /\ events[1] = Ev("WorktreeCreating", "b", None)
    /\ events[2].branch = "b"

\* C29: last_fetch changes only in the step that handles FetchCompleted;
\* the step that handles FetchFailed takes the event, clears
\* fetch_in_progress and leaves last_fetch, known_branches, pending_branches,
\* current_processing and the hook sessions as they were; and in any
\* reachable state on_fetch_failed changes fetch_in_progress at most.
FetchFailedFrame ==
    /\ [](on_fetch_failed(W) = [W EXCEPT !.fetch_in_progress = FALSE])
    /\ [][last_fetch' # last_fetch
            => DriverTakesHead /\ Head(events).type = "FetchCompleted"]_vars
    /\ [][DriverTakesHead /\ Head(events).type = "FetchFailed"
            => /\ ~fetch_in_progress'
               /\ events' = Tail(events)
               /\ last_fetch' = last_fetch
               /\ known_branches' = known_branches
               /\ pending_branches' = pending_branches
               /\ current_processing' = current_processing
               /\ running_hooks' = running_hooks
               /\ items' = items]_vars

\* The driver is about to handle FetchFailed while the fetch is marked in
\* progress, "a" is being provisioned and "b" waits.
FetchFailedWhileQueueBusy ==
    /\ pc = "events"
    /\ events # <<>>
    /\ Head(events).type = "FetchFailed"
    /\ fetch_in_progress
    /\ current_processing = "a"
    /\ pending_branches = <<"b">>

\* C30: every WorktreeCreating(b) answers an enqueue of its own, so a branch
\* whose creation failed is created again only after it was enqueued again;
\* a branch is enqueued only by a key handler's queue_branch or by the
\* handler of FetchCompleted for a branch the registry did not hold; and the
\* step that sends WorktreeCreateFailed(b) leaves b neither pending nor
\* current.
NoAutomaticRetry ==
    /\ [](\A b \in Branches : Count(createLog, b) <= Count(enqLog, b))
    /\ [][enqLog' # enqLog
            => /\ IsPrefix(enqLog, enqLog')
               /\ \/ pc = "key"
                  \/ /\ DriverTakesHead
                     /\ Head(events).type = "FetchCompleted"
                     /\ \A i \in (Len(enqLog) + 1)..Len(enqLog') :
                            enqLog'[i] \notin DOMAIN known_branches]_vars
    /\ [][createLog' # createLog
            => \A i \in 1..Len(Sent) :
                  Sent[i].type = "WorktreeCreateFailed"
                  => /\ ~Contains(pending_branches', Sent[i].branch)
                     /\ current_processing' # Sent[i].branch]_vars

\* The creation of "a" failed and was reported; since then "b" was created
\* and a fetch was completed with "a" in the registry, and "a" has not been
\* tried again.
FailedBranchLeftAlone ==
    /\ pc = "key"
    /\ events = <<>>
    /\ createLog = <<"a", "b">>
    /\ "a" \notin worktrees
    /\ "b" \in worktrees
    /\ "a" \in DOMAIN known_branches
    /\ last_fetch = 1
    /\ pending_branches = <<>>
    /\ current_processing = None

\* C31: with a branch current, the handlers that call try_process_next
\* (WorktreeCreated, WorktreeCreateFailed, HookCompleted) only take their
\* event: nothing is sent and pending_branches, current_processing and
\* running_hooks stay; try_process_next applied to such a state returns it
\* and queue_branch at most appends to pending_branches; and no step that
\* starts with a branch current starts a creation, so process_next_branch
\* is not entered from any caller.
AdvanceWhileCurrentIsNoOp ==
    /\ [](current_processing # None
            => \A g \in DriverGitOutcomes :
                  /\ try_process_next(W, g, post_create_command) = W
                  /\ \A b \in Branches :
                         LET w == queue_branch(W, b, g, post_create_command)
                         IN  /\ w.createLog = createLog
                             /\ w.events = events
                             /\ w.current_processing = current_processing
                             /\ w.running_hooks = running_hooks)
    /\ [][/\ DriverTakesHead
           /\ Head(events).type \in {"WorktreeCreated", "WorktreeCreateFailed",
                                      "HookCompleted"}
           /\ current_processing # None
           => /\ events' = Tail(events)
              /\ pending_branches' = pending_branches
              /\ current_processing' = current_processing
              /\ running_hooks' = running_hooks]_vars
    /\ [][current_processing # None => createLog' = createLog]_vars

\* The hook of "a" has ended and its HookCompleted is next on the channel,
\* but a fetch completion handled before it in this drain already started
\* "b", which is current with its hook running while "c" waits.
AdvanceCalledWhileCurrent ==
    /\ pc = "events"
    /\ events # <<>>
    /\ Head(events).type = "HookCompleted"
    /\ Head(events).branch = "a"
    /\ current_processing = "b"
    /\ "b" \in DOMAIN running_hooks
    /\ pending_branches = <<"c">>

\* The branches a step listed in NewBranchesFound events.
Reported ==
    UNION {SeqToSet(Sent[i].arg) :
               i \in {j \in 1..Len(Sent) : Sent[j].type = "NewBranchesFound"}}

\* C32: the step that handles FetchCompleted lists no ignored branch in
\* NewBranchesFound and pushes none on pending_branches; and whatever the
\* scan returns in a reachable state, an ignored branch of the remote scan
\* is in the registry after on_fetch_complete.
IgnoredNeitherReportedNorQueued ==
    /\ [](\A remote \in RemoteResults(remote_name), b \in untracked_branches :
            remote.ok /\ b \in Names(remote.list)
            => b \in DOMAIN on_fetch_complete(
                                W, remote, LocalResult(W),
                                [first |-> "ok", retry |-> "ok"],
                                auto_create_worktrees,
                                post_create_command).known_branches)
    /\ [][DriverTakesHead /\ Head(events).type = "FetchCompleted"
            => \A b \in untracked_branches :
                  /\ b \notin Reported
                  /\ \A i \in (Len(enqLog) + 1)..Len(enqLog') :
                         enqLog'[i] # b
                  /\ ~Contains(pending_branches', b)]_vars

\* With "b" on the ignore list and auto-create on, a fetch found all three
\* branches: NewBranchesFound lists "a" and "c", both were pushed on
\* pending, and "b" is in the registry.
IgnoredBranchFound ==
    /\ untracked_branches = {"b"}
    /\ pc = "events"
    /\ events # <<>>
    /\ Head(events) = Ev("NewBranchesFound", None, <<"a", "c">>)
    /\ enqLog = <<"a", "c">>
    /\ "b" \in DOMAIN known_branches

\* A terminal message waits on the channel of session b.
TerminalWaiting(b) ==
    \E i \in 1..Len(running_hooks[b].chan) : IsTerminal(running_hooks[b].chan[i])

\* The events of type t a step sent for branch b, as positions in Sent.
SentFor(b, t) ==
    {i \in 1..Len(Sent) : Sent[i].branch = b /\ Sent[i].type = t}

Pushed == SubSeq(enqLog', Len(enqLog) + 1, Len(enqLog'))

\* The new_branches list of the NewBranchesFound event a step sent.
Discovered ==
    IF Sent # <<>> /\ Sent[1].type = "NewBranchesFound"
    THEN Sent[1].arg ELSE <<>>

ReportedOnlyWhenFirstSeen ==
    /\ [][DriverTakesHead /\ Head(events).type = "FetchCompleted"
            => \A b \in Reported \cup SeqToSet(Pushed) :
                  /\ b \notin DOMAIN known_branches
                  /\ b \in DOMAIN known_branches']_vars
    /\ [][~(DriverTakesHead /\ Head(events).type = "FetchCompleted")
            => /\ \A i \in 1..Len(Sent) : Sent[i].type # "NewBranchesFound"
               /\ enqLog' = enqLog]_vars
    /\ [](\A remote \in RemoteResults(remote_name),
            b \in DOMAIN known_branches :
            LET w == on_fetch_complete(W, remote, LocalResult(W),
                                       [first |-> "ok", retry |-> "ok"],
                                       TRUE, post_create_command)
            IN  /\ \A i \in (Len(enqLog) + 1)..Len(w.enqLog) :
                       w.enqLog[i] # b
                /\ \A i \in (Len(events) + 1)..Len(w.events) :
                       w.events[i].type = "NewBranchesFound"
                       => ~Contains(w.events[i].arg, b))

\* The three branches were found by a fetch handled with auto-create off;
\* auto-create is on now and a second fetch was completed and handled:
\* nothing was ever queued.
SeenBeforeNotQueuedLater ==
    /\ DOMAIN known_branches = Branches
    /\ untracked_branches = {}
    /\ auto_create_worktrees
    /\ last_fetch = 2
    /\ fetchLog = <<"FetchStarted", "FetchCompleted",
                    "FetchStarted", "FetchCompleted">>
    /\ enqLog = <<>>
    /\ events = <<>>
    /\ worktrees = {}

\* The ways to spell the confirmation with the characters of InputChars.
YesSpellings == {<<y, "e", s>> : y \in {"y", "Y"}, s \in {"s", "S"}}

\* C36 (first part): a worktree disappears only in the step that handles
\* Enter in the delete confirmation while its input spells "yes" in any
\* case, and it is the worktree of the dialog's branch; Esc, and Enter with
\* any other input, remove nothing.
RemovedOnlyOnYes ==
    [][worktrees' # worktrees =>
          /\ view_mode.mode = "DeleteConfirm"
          /\ last_key' = "Enter"
          /\ view_mode.input \in YesSpellings
          /\ worktrees' = worktrees \ {view_mode.branch}]_vars

\* C36: a worktree is removed only by Enter on "yes" in the delete
\* confirmation, and the confirmation is never open for the main worktree's
\* branch or for a branch without a worktree.
DeleteOnlyAfterConfirmation ==
    /\ RemovedOnlyOnYes
    /\ [](view_mode.mode = "DeleteConfirm" =>
              /\ view_mode.branch # main_worktree
              /\ view_mode.branch \in worktrees)

\* The confirmation was answered with "YeS" and the worktree is gone.
RemovedAfterYes ==
    /\ last_key = "Enter"
    /\ view_mode.mode = "Main"
    /\ BranchOrder[2] \notin worktrees

\* The confirmation is open for the branch of the main worktree.
ConfirmationOpenForMain ==
    /\ view_mode.mode = "DeleteConfirm"
    /\ view_mode.branch = main_worktree

\* C37: when process_watcher_events returns, status.is_fetching equals the
\* watcher's fetch_in_progress.
StatusAgreesAfterDrain == pc = "poll" => (is_fetching <=> fetch_in_progress)

\* A drain ends with a second fetch shown as in progress.
SecondFetchShown ==
    /\ pc = "poll"
    /\ is_fetching
    /\ fetch_in_progress
    /\ Started(fetchLog) = 2
    /\ Len(fetchLog) = 3

\* C38: every system log in command_logs is closed and has exit code 0, so
\* it counts as succeeded; this holds for the log of a failed fetch, whose
\* first line starts with "Error:".
FetchLogsClosedWithZero ==
    \A i \in 1..Len(command_logs) :
        command_logs[i].is_system_log =>
            /\ ~command_logs[i].is_running
            /\ command_logs[i].exit_code = <<0>>
            /\ succeeded(command_logs[i])
            /\ command_logs[i].output[Len(command_logs[i].output)]
                   = Msg("Exit", 0)

\* The log of a failed fetch with two lines of stderr is recorded.
FailedFetchLogged ==
    \E i \in 1..Len(command_logs) :
        /\ command_logs[i].is_system_log
        /\ Len(command_logs[i].output) = 3
        /\ command_logs[i].output[1] =
               Msg("Stdout", <<"Error:", "sp", "warning", "sp", "x">>)
        /\ command_logs[i].output[2] = Msg("Stdout", <<"fatal", "sp", "x">>)

\* The terminal outputs of a log.
Terminals(log) ==
    {i \in 1..Len(log.output) : log.output[i].kind \in {"Exit", "Error"}}

\* C39: in every log, is_running holds exactly when exit_code is unset; a
\* log without a terminal output is running; a log with one is not, whatever
\* output followed, and when it has exactly one its exit_code is that
\* output's code, -1 for Error.
RunningIffNoExitCode ==
    \A i \in 1..Len(command_logs) :
        LET log == command_logs[i]
            T == Terminals(log)
        IN  /\ log.is_running <=> log.exit_code = <<>>
            /\ T = {} => log.is_running
            /\ T # {} => ~log.is_running
            /\ \A k \in T :
                   T = {k} =>
                       log.exit_code =
                           IF log.output[k].kind = "Exit"
                           THEN <<log.output[k].val>> ELSE <<-1>>

\* A log took Error and then a line of output.
OutputAfterError ==
    \E i \in 1..Len(command_logs) :
        /\ Len(command_logs[i].output) = 3
        /\ command_logs[i].output[1].kind = "Stdout"
        /\ command_logs[i].output[2].kind = "Error"
        /\ command_logs[i].output[3].kind = "Stderr"

====
